---- MODULE Spec2Model ----
(***************************************************************************)
(* A model of github.com/pbnjay/anydata: the Fetcher / Wrapper registries, *)
(* GetFetcher, the built-in Local / HTTP / FTP fetchers, the gzip / bzip2 /*)
(* zip / tarball wrappers and the JSON + local-file cache.                 *)
(*                                                                         *)
(* Go strings and byte slices are TLA+ strings; a nil pointer, nil slice,  *)
(* nil interface or nil error is the value NIL.  Objects (the registered   *)
(* fetcher and wrapper instances) live in the heap obj, addressed by name. *)
(***************************************************************************)
EXTENDS Integers, Sequences, FiniteSets, TLC

VARIABLES
    fetchers,   \* anydata.go: var fetchers []Fetcher   (sequence of object names)
    wrappers,   \* anydata.go: var wrappers []Wrapper   (sequence of object names)
    obj,        \* the fields of every fetcher / wrapper instance
    cachePath,  \* simplecache.go: var cachePath string
    cached,     \* simplecache.go: var cached map[string]cachedfile (a nil map at first)
    cacheAge,   \* simplecache.go: var cacheAge time.Duration (in days)
    disk,       \* the file system: path -> contents, for the files that exist
    now,        \* time.Now(), in days
    held,       \* the caller's variables: each holds a resource and the Fetcher got for it
    call,       \* the last call made by the caller, with its arguments and results
    net,        \* per base resource: the times at which it was retrieved from the network
    crashed,    \* TRUE once a call has panicked (the process is gone)
    cacheFault, \* TRUE once a cache write has failed (os.OpenFile returned an error)
    puts,       \* per cache key: the bytes of the latest PutCachedFile since the
                \* cache was last initialised
    fetched,    \* the Fetch calls that returned no error: the base Fetchers they
                \* were made on, and per variable of the caller what they left
                \* to read
    proc        \* the goroutines that call Fetch at the same time: where each
                \* is in its call, its resource string and the index document
                \* it has serialized

vars == <<fetchers, wrappers, obj, cachePath, cached, cacheAge, disk, now, held,
          call, net, crashed, cacheFault, puts, fetched, proc>>

NIL == "<nil>"

-----------------------------------------------------------------------------
(* package strings *)

Char(s, i) == SubSeq(s, i, i)

HasPrefix(s, p) == Len(s) >= Len(p) /\ SubSeq(s, 1, Len(p)) = p

HasSuffix(s, p) == Len(s) >= Len(p) /\ SubSeq(s, Len(s) - Len(p) + 1, Len(s)) = p

\* strings.Index for a one-character separator; 0 when c does not occur in s
Least(S) == IF S = {} THEN 0 ELSE CHOOSE i \in S : \A j \in S : i <= j

Index(s, c) == Least({i \in 1..Len(s) : Char(s, i) = c})

\* strings.LastIndex for a one-character separator; 0 when c does not occur in s
Greatest(S) == IF S = {} THEN 0 ELSE CHOOSE i \in S : \A j \in S : i >= j

LastIndex(s, c) == Greatest({i \in 1..Len(s) : Char(s, i) = c})

Contains(s, c) == Index(s, c) # 0

\* strings.SplitN(s, c, 2): one or two parts
SplitAt(s, i) ==
    IF i = 0 THEN <<s>> ELSE <<SubSeq(s, 1, i - 1), SubSeq(s, i + 1, Len(s))>>

SplitN2(s, c) == SplitAt(s, Index(s, c))

Before(s, i) == SubSeq(s, 1, i - 1)
After(s, i) == SubSeq(s, i + 1, Len(s))

-----------------------------------------------------------------------------
(* package net/url, on strings over lower-case letters, digits and         *)
(* : / . # % @ ?  (the characters of the resource strings of the model)    *)

Letters == {"a", "b", "c", "d", "e", "f", "g", "h", "i", "j", "k", "l", "m",
            "n", "o", "p", "q", "r", "s", "t", "u", "v", "w", "x", "y", "z"}
Digits == {"0", "1", "2", "3", "4", "5", "6", "7", "8", "9"}
HexDigits == Digits \cup {"a", "b", "c", "d", "e", "f"}

\* url.unescape fails on a '%' that is not followed by two hex digits
ValidEscapes(s) ==
    \A i \in 1..Len(s) :
        Char(s, i) = "%" =>
            /\ i + 2 <= Len(s)
            /\ Char(s, i + 1) \in HexDigits
            /\ Char(s, i + 2) \in HexDigits

\* the byte a %xx escape stands for (the escapes the model's strings use)
PctDecode(hh) ==
    CASE hh = "23" -> "#"
      [] hh = "2e" -> "."
      [] hh = "2f" -> "/"
      [] hh = "3a" -> ":"
      [] OTHER     -> "?"

RECURSIVE Unescape(_)
Unescape(s) ==
    IF s = "" THEN ""
    ELSE IF Char(s, 1) = "%"
         THEN PctDecode(SubSeq(s, 2, 3)) \o Unescape(SubSeq(s, 4, Len(s)))
         ELSE Char(s, 1) \o Unescape(SubSeq(s, 2, Len(s)))

\* url.getscheme: the scheme before the first ':' and the rest after it; no
\* scheme when a character that cannot be in a scheme comes first; an error
\* when the string starts with ':'
SchemeAt(s, i) ==
    IF i = 0 \/ Char(s, i) # ":" THEN [err |-> FALSE, scheme |-> "", rest |-> s]
    ELSE IF i = 1 THEN [err |-> TRUE, scheme |-> "", rest |-> s]
    ELSE [err |-> FALSE, scheme |-> Before(s, i), rest |-> After(s, i)]

GetScheme(s) ==
    SchemeAt(s, Least({i \in 1..Len(s) :
                            ~ \/ Char(s, i) \in Letters
                              \/ (i > 1 /\ Char(s, i) \in Digits \cup {"+", "-", "."})}))

NoURL == [err |-> TRUE, Scheme |-> "", Opaque |-> "", HasUser |-> FALSE, Username |-> "",
          HasPassword |-> FALSE, Password |-> "", Host |-> "", Path |-> "",
          RawQuery |-> "", Fragment |-> ""]

\* url.parseAuthority / parseHost / validOptionalPort, and the unescaping of
\* the path and the fragment (setPath, setFragment): any invalid part fails
\* the whole parse
MakeURL(scheme, userinfo, pw, hasUser, hostport, port, path, query, frag) ==
    IF \/ \E i \in 1..Len(port) : Char(port, i) \notin Digits
       \/ Contains(hostport, "%")
       \/ ~ValidEscapes(userinfo)
       \/ ~ValidEscapes(path)
       \/ ~ValidEscapes(frag)
    THEN NoURL
    ELSE [err |-> FALSE, Scheme |-> scheme, Opaque |-> "",
          HasUser |-> hasUser,
          Username |-> Unescape(IF pw = 0 THEN userinfo ELSE Before(userinfo, pw)),
          HasPassword |-> pw # 0,
          Password |-> IF pw = 0 THEN "" ELSE Unescape(After(userinfo, pw)),
          Host |-> hostport, Path |-> Unescape(path),
          RawQuery |-> query, Fragment |-> Unescape(frag)]

\* the host[:port] of an authority: the port is what follows the last ':'
ParseHost(scheme, userinfo, hasUser, hostport, colon, path, query, frag) ==
    MakeURL(scheme, userinfo, Index(userinfo, ":"), hasUser, hostport,
            IF colon = 0 THEN "" ELSE After(hostport, colon), path, query, frag)

\* [userinfo@]host[:port]: the user info is what precedes the last '@'
ParseUserinfo(scheme, a, at, path, query, frag) ==
    ParseHost(scheme, IF at = 0 THEN "" ELSE Before(a, at), at # 0,
              IF at = 0 THEN a ELSE After(a, at),
              LastIndex(IF at = 0 THEN a ELSE After(a, at), ":"), path, query, frag)

ParseAuthority(scheme, a, path, query, frag) ==
    ParseUserinfo(scheme, a, LastIndex(a, "@"), path, query, frag)

\* "//authority/path": the authority ends at the next '/'
SplitAuthority(scheme, afterSl, sl, query, frag) ==
    ParseAuthority(scheme, IF sl = 0 THEN afterSl ELSE Before(afterSl, sl),
                   IF sl = 0 THEN "" ELSE SubSeq(afterSl, sl, Len(afterSl)), query, frag)

FirstSegment(rest, sl) == IF sl = 0 THEN rest ELSE Before(rest, sl)

\* url.parse after the scheme and the query are cut off
ParseHier(scheme, rest, query, frag) ==
    IF ~HasPrefix(rest, "/") /\ scheme # ""
    THEN IF ~ValidEscapes(frag) THEN NoURL
         ELSE [NoURL EXCEPT !.err = FALSE, !.Scheme = scheme, !.Opaque = rest,
                            !.RawQuery = query, !.Fragment = Unescape(frag)]
    ELSE IF ~HasPrefix(rest, "/") /\ Contains(FirstSegment(rest, Index(rest, "/")), ":")
    THEN NoURL
    ELSE IF HasPrefix(rest, "//") /\ (scheme # "" \/ ~HasPrefix(rest, "///"))
    THEN SplitAuthority(scheme, SubSeq(rest, 3, Len(rest)),
                        Index(SubSeq(rest, 3, Len(rest)), "/"), query, frag)
    ELSE MakeURL(scheme, "", 0, FALSE, "", "", rest, query, frag)

ParseQuery(gs, q, frag) ==
    IF gs.err THEN NoURL
    ELSE ParseHier(gs.scheme, IF q = 0 THEN gs.rest ELSE Before(gs.rest, q),
                   IF q = 0 THEN "" ELSE After(gs.rest, q), frag)

ParseScheme(gs, frag) == ParseQuery(gs, Index(gs.rest, "?"), frag)

ParseFragment(rawurl, hash) ==
    ParseScheme(GetScheme(IF hash = 0 THEN rawurl ELSE Before(rawurl, hash)),
                IF hash = 0 THEN "" ELSE After(rawurl, hash))

\* url.Parse: the fragment is what follows the first '#'
URLParse(rawurl) == ParseFragment(rawurl, Index(rawurl, "#"))

-----------------------------------------------------------------------------
(* packages archive/zip, archive/tar, compress/gzip and compress/bzip2.    *)
(* A file of an archive is written name=content; a tar stream is its       *)
(* files one after the other, a zip archive its files between the          *)
(* signature PK and the end record KP; a gzip stream is GZ and a bzip2     *)
(* stream BZ before the data.  An io.Reader is [data, fails]: the bytes    *)
(* that reading it to the end yields, and whether the reading ends with an *)
(* error instead of io.EOF.                                                *)

RECURSIVE WriteFiles(_)
WriteFiles(fs) ==
    IF fs = <<>> THEN ""
    ELSE Head(fs).Name \o "=" \o Head(fs).content \o ";" \o WriteFiles(Tail(fs))

TarOf(fs) == WriteFiles(fs)
ZipOf(fs) == "PK" \o WriteFiles(fs) \o "KP"
GzipOf(data) == "GZ" \o data
Bzip2Of(data) == "BZ" \o data

\* the files at the head of a byte string, up to its end or to the first
\* byte that starts no file: [err, File]
RECURSIVE ReadFiles(_, _)
ReadFile(e, eq, rest, acc) ==
    IF eq = 0 THEN [err |-> TRUE, File |-> acc]
    ELSE ReadFiles(rest, Append(acc, [Name |-> Before(e, eq), content |-> After(e, eq)]))

ReadFiles(body, acc) ==
    IF body = "" THEN [err |-> FALSE, File |-> acc]
    ELSE IF Index(body, ";") = 0 THEN [err |-> TRUE, File |-> acc]
    ELSE ReadFile(Before(body, Index(body, ";")), Index(Before(body, Index(body, ";")), "="),
                  After(body, Index(body, ";")), acc)

\* zip.NewReader(bytes.NewReader(data), len(data)): an error unless data is a
\* whole archive
ZipNewReader(data) ==
    IF Len(data) < 4 \/ ~HasPrefix(data, "PK") \/ ~HasSuffix(data, "KP")
    THEN [err |-> TRUE, File |-> <<>>]
    ELSE ReadFiles(SubSeq(data, 3, Len(data) - 2), <<>>)

\* the position of the last file called name, or 0: the variant of FindFile
\* that C33 must tell from it
FindLastFile(fs, name) == Greatest({i \in 1..Len(fs) : fs[i].Name = name})

\* the position of the first file called name, or 0
FindFile(fs, name) == Least({i \in 1..Len(fs) : fs[i].Name = name})

\* the reader that yields data and ends with io.EOF; the reader that fails
\* at once
BytesReader(data) == [data |-> data, fails |-> FALSE]
FailingReader == [data |-> "", fails |-> TRUE]

\* gzip.NewReader(r): it reads the header, and fails without one
GzipNewReader(r) ==
    IF HasPrefix(r.data, "GZ")
    THEN [err |-> NIL, r |-> [data |-> SubSeq(r.data, 3, Len(r.data)), fails |-> r.fails]]
    ELSE [err |-> "gzip: invalid header", r |-> FailingReader]

\* bzip2.NewReader(r): it reads nothing yet; a stream without the header
\* fails when it is read
Bzip2NewReader(r) ==
    IF HasPrefix(r.data, "BZ")
    THEN [data |-> SubSeq(r.data, 3, Len(r.data)), fails |-> r.fails]
    ELSE FailingReader

\* tar.NewReader(r) and the calls of tr.Next(): the files it steps through
\* before io.EOF or an error
TarFiles(r) == ReadFiles(r.data, <<>>).File

-----------------------------------------------------------------------------
(* The objects.  The built-in instances are the ones init() registers; the *)
(* user instances are implementations of the interfaces a program may      *)
(* register.  Every object has all fields; a kind uses its own.            *)

\* the number of Fetcher variables of the caller
MaxHeld == 2

BuiltinFetchers == <<"local", "http", "ftp">>
BuiltinWrappers == <<"bz", "gz", "zip", "tar">>
UserFetchers == {"uf1"}
UserWrappers == {"uw1", "uw2"}

Range(s) == {s[i] : i \in 1..Len(s)}

Objects == Range(BuiltinFetchers) \cup Range(BuiltinWrappers) \cup UserFetchers \cup UserWrappers

\* &localFetcher{}, &httpFetcher{}, &zipWrapper{}, ...: every field zero
\* (f is the *os.File of localFetcher: the name of the open file, and pos its
\* read offset)
ZeroObject == [wrapped |-> NIL, insideName |-> "", compType |-> "", data |-> NIL, f |-> NIL,
               pos |-> 0]

\* the resource strings the caller uses
Resources == {
    "/tmp/x.txt",              \* a bare path
    "file:///tmp/x.txt",
    "file:///tmp/x%2etxt",     \* a valid escape in the path
    "file:///tmp/none",        \* a file that does not exist
    "http://h/a.zip#m1",
    "http://h/a.zip#m2",
    "ftp://h/t.tar.gz#m1",
    "ftp://h/t.tar.gz#m2",
    "ftp://h/g.gz",
    "ftp://h/b.bz2",
    "ftp://h/t%zz.tgz#m1",     \* url.Parse fails (bad escape); has a '#'
    "http://h/%zz"             \* url.Parse fails; no '#', no wrapper suffix
}

\* the files of the archives of the model, in the order they are stored: the
\* name m1 is stored twice
ArchiveFiles == <<[Name |-> "m1", content |-> "x1"], [Name |-> "m3", content |-> "x3"],
                  [Name |-> "m1", content |-> "y1"]>>

\* the resource strings of a caller that reads archives: a zip archive on
\* the local disk, and tarballs of every suffix
ArchiveResources == {
    "file:///tmp/a.zip#m1",
    "http://h/t.tar#m1",
    "http://h/t.tgz#m1",
    "ftp://h/t.tar.bz2#m1",
    "http://h/t.tbz2#m1",
    "ftp://h/t.tar.bzip2#m1"
}

\* the resource strings of a caller that reads plain files: one over HTTP,
\* and over FTP one without port and credentials, one with a port, a user
\* and a password, one with a user only, and one with a ':' and no port
\* after the host
PlainResources == {"http://h/x.txt", "ftp://h/x.txt", "ftp://u:p@h:2121/x.txt",
                   "ftp://u@h/x.txt", "ftp://h:/x.txt"}

\* url.Parse of the resource strings, computed once
Parsed == [r \in Resources \cup ArchiveResources \cup PlainResources |-> URLParse(r)]

Parse(resource) == Parsed[resource]

\* localFetcher.Detect
LocalDetect(resource) ==
    LET furl == Parse(resource)
    IN  IF ~furl.err /\ furl.Scheme # "file" THEN FALSE ELSE TRUE

\* httpFetcher.Detect
HttpDetect(resource) ==
    IF HasPrefix(resource, "http://") THEN TRUE
    ELSE IF HasPrefix(resource, "https://") THEN TRUE
    ELSE FALSE

\* ftpFetcher.Detect
FtpDetect(resource) == HasPrefix(resource, "ftp://")

\* Fetcher.Detect of the object named id.  The wrappers are Fetchers too and
\* detect nothing.  uf1 is a user's fetcher for http://.
Detect(id, resource) ==
    CASE id = "local" -> LocalDetect(resource)
      [] id = "http"  -> HttpDetect(resource)
      [] id = "ftp"   -> FtpDetect(resource)
      [] id = "uf1"   -> HasPrefix(resource, "http://")
      [] OTHER        -> FALSE

\* bzWrapper.DetectWrap
BzDetectWrap(pathname, partname) ==
    IF partname # "" THEN FALSE
    ELSE IF HasSuffix(pathname, ".bz2") \/ HasSuffix(pathname, ".bzip2") THEN TRUE
    ELSE FALSE

\* a DetectWrap that looks at the suffix only: the variant of GzDetectWrap
\* that C32 must tell from it
GzDetectWrapAnyPart(pathname, partname) ==
    IF HasSuffix(pathname, ".gz") THEN TRUE ELSE FALSE

\* gzWrapper.DetectWrap
GzDetectWrap(pathname, partname) ==
    IF partname = "" /\ HasSuffix(pathname, ".gz") THEN TRUE ELSE FALSE

\* zipWrapper.DetectWrap
ZipDetectWrap(pathname, partname) ==
    IF partname # "" /\ HasSuffix(pathname, ".zip") THEN TRUE ELSE FALSE

\* a DetectWrap that takes every compressed tarball for a gzip one: the
\* variant of TarCompType that C15 must tell from it
TarCompTypeGzipOnly(pathname, partname) ==
    IF partname = "" THEN ""
    ELSE IF HasSuffix(pathname, ".tar") THEN "none"
    ELSE IF \/ HasSuffix(pathname, ".tar.gz") \/ HasSuffix(pathname, ".tgz")
            \/ HasSuffix(pathname, ".tar.bz2") \/ HasSuffix(pathname, ".tbz2")
            \/ HasSuffix(pathname, ".tar.bzip2") THEN "gzip"
    ELSE ""

\* tarballWrapper.DetectWrap: the value it leaves in n.compType ("" when it
\* returns false)
TarCompType(pathname, partname) ==
    IF partname = "" THEN ""
    ELSE IF HasSuffix(pathname, ".tar") THEN "none"
    ELSE IF HasSuffix(pathname, ".tar.gz") \/ HasSuffix(pathname, ".tgz") THEN "gzip"
    ELSE IF \/ HasSuffix(pathname, ".tar.bz2") \/ HasSuffix(pathname, ".tbz2")
            \/ HasSuffix(pathname, ".tar.bzip2") THEN "bzip2"
    ELSE ""

\* tarballWrapper.DetectWrap: its result
TarDetectWrap(pathname, partname) == TarCompType(pathname, partname) # ""

\* Wrapper.DetectWrap of the object named id: its result.  uw1 is a user's
\* wrapper for every resource, uw2 one for every resource with a part name.
DetectWrap(id, pathname, partname) ==
    CASE id = "bz"  -> BzDetectWrap(pathname, partname)
      [] id = "gz"  -> GzDetectWrap(pathname, partname)
      [] id = "zip" -> ZipDetectWrap(pathname, partname)
      [] id = "tar" -> TarDetectWrap(pathname, partname)
      [] id = "uw1" -> TRUE
      [] id = "uw2" -> partname # ""
      [] OTHER      -> FALSE

\* Wrapper.DetectWrap of the object named id: the heap it leaves
\* (tarballWrapper.DetectWrap assigns n.compType on every call)
DetectWrapHeap(o, id, pathname, partname) ==
    IF id = "tar"
    THEN [o EXCEPT !["tar"].compType = TarCompType(pathname, partname)]
    ELSE o

\* Wrapper.Wrap of the object named id, on the heap o:
\* the heap it leaves, and the (Fetcher, error) it returns.
\* bz, gz: n.wrapped = f.  zip, tar, uw1: n.wrapped = f; n.insideName = partname.
\* uw2 is a wrapper whose Wrap fails: it returns (nil, error).
Wrap(o, id, f, partname) ==
    CASE id \in {"bz", "gz"} ->
            [obj |-> [o EXCEPT ![id].wrapped = f], f |-> id, err |-> NIL]
      [] id \in {"zip", "tar", "uw1"} ->
            [obj |-> [o EXCEPT ![id].wrapped = f, ![id].insideName = partname],
             f |-> id, err |-> NIL]
      [] OTHER ->
            [obj |-> o, f |-> NIL, err |-> "wrap failed"]

-----------------------------------------------------------------------------
(* simplecache.go.  A map is [isNil, m]: a nil map reads as empty and      *)
(* panics when assigned to.  Times and ages are whole days.                *)

NilMap == [isNil |-> TRUE, m |-> <<>>]
EmptyMap == [isNil |-> FALSE, m |-> <<>>]

\* GetCachedFile: InitCache("cache", 7)
DefaultCachePath == "cache"
DefaultAgeDays == 7

\* the latest day of the model's clock
MaxTime == 2

\* the cache keys of the model's resource strings, in the order json.Marshal
\* writes the keys of a map (sorted)
KeyOrder == <<"ftp://h/a.zip", "ftp://h/b.bz2", "ftp://h/g.gz", "ftp://h/t.tar.bz2",
              "ftp://h/t.tar.bzip2", "ftp://h/t.tar.gz", "ftp://h/x.txt", "ftp://h:/x.txt",
              "ftp://u:p@h:2121/x.txt", "ftp://u@h/x.txt", "http://g/a.zip",
              "http://h/a.zip", "http://h/a.zip?q", "http://h/t.tar", "http://h/t.tbz2",
              "http://h/t.tgz", "http://h/x.txt", "http://u@h/a.zip">>

\* a name that does not depend on the key: the variant of MD5Hex that C29
\* must tell from it
MD5HexOfNothing(s) == "d41d8cd98f00b204e9800998ecf8427e"

\* fmt.Sprintf("%x", md5(s)) of the cache keys
MD5Hex(s) ==
    CASE s = "http://h/a.zip"   -> "527dc57e57a42a73a8b8e2fa191ee14d"
      [] s = "ftp://h/g.gz"     -> "6321f3ee6f42d29fd556a4429e884f6a"
      [] s = "ftp://h/t.tar.gz" -> "b293ddc55789bf52fe97cfa64682588b"
      [] s = "ftp://h/b.bz2"    -> "e588d4b3f0883b7b3271344986d7ae0f"
      [] s = "ftp://h/t.tar.bz2"   -> "b3cd96072ab90a356bb95bc0b39cf6fd"
      [] s = "ftp://h/t.tar.bzip2" -> "dc6564728a4f87b1c8ee74d74435a455"
      [] s = "http://h/t.tar"   -> "75f2b1f8fb0c846f57d18fd4639c8b99"
      [] s = "http://h/t.tbz2"  -> "9a3e76a5e79ce41b7080d18ae86468a1"
      [] s = "http://h/t.tgz"   -> "6bd182bac68648b4a8f4b19474a17b42"
      [] s = "ftp://h/a.zip"    -> "758edea2c9d4b84cad8a489fc0399dfb"
      [] s = "http://g/a.zip"   -> "287a4baee4c315bda2a8aa892e417e7c"
      [] s = "http://u@h/a.zip" -> "4d283f1e3896516e62fd65888fd21a51"
      [] s = "http://h/a.zip?q" -> "6191d68c8ed39b03b1296afaa3b71e6a"
      [] s = "http://h/x.txt"   -> "fbb9690b5a210b9f9e2b5753242ad947"
      [] s = "ftp://h/x.txt"    -> "348dd826516a5054b23ce93b0582cfd7"
      [] s = "ftp://u:p@h:2121/x.txt" -> "ffdbf8d8d2b5831c0b4abf8de3d70b4f"
      [] s = "ftp://u@h/x.txt"  -> "44967769a01e04a81187dcb5e3860b91"
      [] s = "ftp://h:/x.txt"   -> "729a159ac21a773edf30ad2488e7831a"
      [] OTHER                  -> "d41d8cd98f00b204e9800998ecf8427e"

\* path.Join of a directory and a file name
PathJoin(dir, name) == IF dir = "" THEN name ELSE dir \o "/" \o name

Exists(dsk, p) == p \in DOMAIN dsk

\* os.OpenFile(p, O_WRONLY|O_CREATE, 0666); f.Write(data); f.Close():
\* the file is not truncated, so what an older, longer content has beyond
\* len(data) stays
WriteFile(dsk, p, data) ==
    IF Exists(dsk, p) /\ Len(dsk[p]) > Len(data)
    THEN [dsk EXCEPT ![p] = data \o SubSeq(dsk[p], Len(data) + 1, Len(dsk[p]))]
    ELSE (p :> data) @@ dsk

\* a day number in decimal, as the time stamp of an index entry is written
RECURSIVE TimeStr(_)
TimeStr(t) ==
    IF t < 10 THEN Char("0123456789", t + 1)
    ELSE TimeStr(t \div 10) \o Char("0123456789", (t % 10) + 1)

IsTimeStr(s) == s # "" /\ \A i \in 1..Len(s) : Char(s, i) \in Digits

RECURSIVE ParseTime(_)
ParseTime(s) ==
    IF s = "" THEN 0
    ELSE 10 * ParseTime(SubSeq(s, 1, Len(s) - 1)) + (Index("0123456789", Char(s, Len(s))) - 1)

\* Time.MarshalJSON writes the fraction of the second without its trailing
\* zeros, so the text of a time stamp is longer for an instant that has a
\* fraction.  Of the instants of the model's clock, the second has one and the
\* others have none.
Fraction(t) == IF t = 1 THEN ".5" ELSE ""

\* the text of the time stamp of instant t
Stamp(t) == TimeStr(t) \o Fraction(t)

\* Time.UnmarshalJSON: whether a text is a time stamp, and its day
IsStamp(s) ==
    IF Contains(s, ".")
    THEN IsTimeStr(Before(s, Index(s, "."))) /\ IsTimeStr(After(s, Index(s, ".")))
    ELSE IsTimeStr(s)

ParseStamp(s) ==
    IF Contains(s, ".") THEN ParseTime(Before(s, Index(s, "."))) ELSE ParseTime(s)

\* json.Marshal(cached): the index document, one "key|local_path|fetch_timestamp;"
\* per entry between braces, the keys in sorted order
RECURSIVE MarshalFrom(_, _)
MarshalFrom(m, i) ==
    IF i > Len(KeyOrder) THEN ""
    ELSE IF KeyOrder[i] \in DOMAIN m
         THEN KeyOrder[i] \o "|" \o m[KeyOrder[i]].LocalName \o "|"
                \o Stamp(m[KeyOrder[i]].FetchTime) \o ";" \o MarshalFrom(m, i + 1)
         ELSE MarshalFrom(m, i + 1)

Marshal(m) == "{" \o MarshalFrom(m, 1) \o "}"

\* one entry of the document: its three fields, or an error
EntryFields(e, b1, b2) ==
    IF \/ b1 = 0 \/ b2 = b1
       \/ Contains(e, "{") \/ Contains(e, "}")
       \/ ~IsStamp(After(e, b2))
    THEN [err |-> TRUE, key |-> "", LocalName |-> "", FetchTime |-> 0]
    ELSE [err |-> FALSE, key |-> Before(e, b1), LocalName |-> SubSeq(e, b1 + 1, b2 - 1),
          FetchTime |-> ParseStamp(After(e, b2))]

ParseEntry(e) == EntryFields(e, Index(e, "|"), LastIndex(e, "|"))

\* the entries of a document body: [err, m]
RECURSIVE ParseEntries(_, _)
AddEntry(f, rest, acc) ==
    IF f.err THEN [err |-> TRUE, m |-> acc]
    ELSE ParseEntries(rest, (f.key :> [LocalName |-> f.LocalName, FetchTime |-> f.FetchTime])
                                @@ acc)

ParseEntries(body, acc) ==
    IF body = "" THEN [err |-> FALSE, m |-> acc]
    ELSE IF Index(body, ";") = 0 THEN [err |-> TRUE, m |-> acc]
    ELSE AddEntry(ParseEntry(Before(body, Index(body, ";"))),
                  After(body, Index(body, ";")), acc)

\* whether an entry is well formed: it has its three fields and no brace
EntrySyntax(e, b1, b2) ==
    b1 # 0 /\ b2 # b1 /\ ~Contains(e, "{") /\ ~Contains(e, "}")

ValidEntry(e) == EntrySyntax(e, Index(e, "|"), LastIndex(e, "|"))

\* whether every entry of a document body is well formed and ended by ';'
RECURSIVE ValidEntries(_)
ValidEntries(body) ==
    \/ body = ""
    \/ /\ Index(body, ";") # 0
       /\ ValidEntry(Before(body, Index(body, ";")))
       /\ ValidEntries(After(body, Index(body, ";")))

\* json.Unmarshal(data, &cached).  It first scans the whole document: one
\* that is not well formed is an error and decodes nothing.  It then decodes
\* entry after entry into the map, and stops with an error at the first
\* entry whose time stamp does not decode: the entries before it stay in
\* the map.
Unmarshal(doc) ==
    IF \/ Len(doc) < 2 \/ Char(doc, 1) # "{" \/ Char(doc, Len(doc)) # "}"
       \/ ~ValidEntries(SubSeq(doc, 2, Len(doc) - 1))
    THEN [err |-> TRUE, m |-> <<>>]
    ELSE ParseEntries(SubSeq(doc, 2, Len(doc) - 1), <<>>)

IndexFile == "cacheinfo.json"

\* the JSON document null: json.Unmarshal sets a map it decodes null into to
\* nil
NullDocument == "null"

\* what InitCache leaves in cached: the empty map of
\* make(map[string]cachedfile) when there is no index document, a nil map
\* when the document is null, else the map with what json.Unmarshal decoded
\* into it (the error of json.Unmarshal is not looked at)
LoadIndex(dsk, cpath) ==
    IF ~Exists(dsk, PathJoin(cpath, IndexFile)) THEN EmptyMap
    ELSE IF dsk[PathJoin(cpath, IndexFile)] = NullDocument THEN NilMap
    ELSE [isNil |-> FALSE, m |-> Unmarshal(dsk[PathJoin(cpath, IndexFile)]).m]

\* time.Duration is an int64 of nanoseconds.  The most days whose
\* nanoseconds fit it, floor((2^63 - 1) / 86400000000000), and the days of
\* one turn of the int64, ceil(2^64 / 86400000000000)
MaxDurationDays == 106751
WrapDays == 213504

\* time.Duration(ageDays) * 24 * time.Hour for 1 <= ageDays < WrapDays, in
\* whole days (rounded down, which keeps every comparison with a whole
\* number of days): the product wraps round when it does not fit the int64
DurationDays(ageDays) ==
    IF ageDays > MaxDurationDays THEN ageDays - WrapDays ELSE ageDays

\* InitCache(cpath, ageDays): the cache state [cachePath, cacheAge, cached] it leaves
InitCacheState(dsk, cpath, ageDays) ==
    [cachePath |-> cpath,
     cacheAge |-> IF ageDays < 1 THEN 1 ELSE DurationDays(ageDays),
     cached |-> LoadIndex(dsk, cpath)]

\* the first lines of GetCachedFile: if cached == nil { InitCache("cache", 7) }
LazyInit(c, dsk) ==
    IF c.cached.isNil THEN InitCacheState(dsk, DefaultCachePath, DefaultAgeDays) ELSE c

\* a cache key that keeps the member name: the variant of CacheKey that C1
\* must tell from it
CacheKeyWhole(resource) == resource

\* resource strings that share the path /a.zip: one resource with and without
\* a member name, and resources that differ from it in the scheme, the host,
\* the credentials or the query
KeyResources == {"http://h/a.zip", "http://h/a.zip#m1", "http://h/a.zip#m2",
                 "ftp://h/a.zip", "http://g/a.zip", "http://u@h/a.zip", "http://h/a.zip?q"}

\* the strings the model takes a cache key or a base resource of: its
\* resource strings, the empty string of a variable that holds none, and the
\* keys of these
Keyed ==
    (DOMAIN Parsed \cup KeyResources \cup {""})
        \cup {SplitN2(r, "#")[1] : r \in DOMAIN Parsed \cup KeyResources \cup {""}}

\* a cache key that stops at the query as well: the variant of CacheKey that
\* C30 must tell from it
CacheKeyNoQuery(resource) == SplitN2(SplitN2(resource, "#")[1], "?")[1]

\* strings.SplitN(resource, "#", 2) for these strings
Split == [r \in Keyed |-> SplitN2(r, "#")]

\* the cache key of a resource string: strings.SplitN(resource, "#", 2)[0]
CacheKey(resource) == Split[resource][1]

\* the text before the first '#' of these strings
BeforeHash ==
    [r \in Keyed |-> IF Contains(r, "#") THEN Before(r, Index(r, "#")) ELSE r]

\* the base resource of a resource string: the text before its first '#'
BaseResource(resource) == BeforeHash[resource]

\* a lookup that treats an entry as stale from the day its age reaches
\* cacheAge (>= for >): the variant of Lookup that C3 must tell from it
LookupStaleAtLimit(c, dsk, t, key) ==
    [c |-> c,
     data |-> IF key \in DOMAIN c.cached.m
              THEN IF t - c.cached.m[key].FetchTime >= c.cacheAge THEN NIL
                   ELSE IF Exists(dsk, PathJoin(c.cachePath, c.cached.m[key].LocalName))
                        THEN dsk[PathJoin(c.cachePath, c.cached.m[key].LocalName)]
                        ELSE NIL
              ELSE NIL]

\* a lookup that drops the entry it finds too old: the variant of Lookup that
\* C28 must tell from it
LookupEvicting(c, dsk, t, key) ==
    IF key \in DOMAIN c.cached.m /\ t - c.cached.m[key].FetchTime > c.cacheAge
    THEN [c |-> [c EXCEPT !.cached.m =
                     [k \in DOMAIN c.cached.m \ {key} |-> c.cached.m[k]]],
          data |-> NIL]
    ELSE [c |-> c,
          data |-> IF key \in DOMAIN c.cached.m
                      /\ Exists(dsk, PathJoin(c.cachePath, c.cached.m[key].LocalName))
                   THEN dsk[PathJoin(c.cachePath, c.cached.m[key].LocalName)]
                   ELSE NIL]

\* GetCachedFile after the lazy initialisation, in the cache state c: the
\* cache state it leaves and the bytes it returns, or NIL
Lookup(c, dsk, t, key) ==
    [c |-> c,
     data |-> IF key \in DOMAIN c.cached.m
              THEN IF t - c.cached.m[key].FetchTime > c.cacheAge THEN NIL
                   ELSE IF Exists(dsk, PathJoin(c.cachePath, c.cached.m[key].LocalName))
                        THEN dsk[PathJoin(c.cachePath, c.cached.m[key].LocalName)]
                        ELSE NIL
              ELSE NIL]

\* GetCachedFile(resource) in the cache state c
GetCachedResult(c, dsk, t, resource) == Lookup(LazyInit(c, dsk), dsk, t, CacheKey(resource))

\* the map assignment of PutCachedFile
SetEntry(cmap, key, name, t) ==
    [cmap EXCEPT !.m = (key :> [LocalName |-> name, FetchTime |-> t]) @@ cmap.m]

\* PutCachedFile with rparts[0] = key and tempname = name, in the cache state
\* c.  fault says which os.OpenFile fails: "payload", "index" or "none".  The
\* result is the cache state and the disk it leaves, and whether it panicked
\* (an assignment to an entry of a nil map).
PutEntry(c, dsk, t, key, name, data, fault) ==
    IF fault = "payload"
    THEN [c |-> c, disk |-> dsk, panic |-> FALSE]
    ELSE IF c.cached.isNil
    THEN [c |-> c, disk |-> WriteFile(dsk, PathJoin(c.cachePath, name), data),
          panic |-> TRUE]
    ELSE IF fault = "index"
    THEN [c |-> [c EXCEPT !.cached = SetEntry(c.cached, key, name, t)],
          disk |-> WriteFile(dsk, PathJoin(c.cachePath, name), data),
          panic |-> FALSE]
    ELSE [c |-> [c EXCEPT !.cached = SetEntry(c.cached, key, name, t)],
          disk |-> WriteFile(WriteFile(dsk, PathJoin(c.cachePath, name), data),
                             PathJoin(c.cachePath, IndexFile),
                             Marshal(SetEntry(c.cached, key, name, t).m)),
          panic |-> FALSE]

\* PutCachedFile(resource, data)
PutCachedResult(c, dsk, t, resource, data, fault) ==
    PutEntry(c, dsk, t, CacheKey(resource), MD5Hex(CacheKey(resource)), data, fault)

CacheState == [cachePath |-> cachePath, cacheAge |-> cacheAge, cached |-> cached]

SetCacheState(c) ==
    /\ cachePath' = c.cachePath
    /\ cacheAge' = c.cacheAge
    /\ cached' = c.cached

\* the goroutines of a program that calls Fetch from several at a time, and
\* a goroutine that has not called Fetch yet
Procs == {"g1", "g2", "g3"}
Idle == [pc |-> "idle", resource |-> "", cdata |-> NIL]

\* the record of a call: its name, its arguments and what it returned
NoCall == [op |-> "none", resource |-> "", f |-> NIL, err |-> NIL, data |-> NIL,
           consulted |-> <<>>, selected |-> NIL, applied |-> <<>>, readerr |-> FALSE,
           reply |-> "none", ageDays |-> 0, ftp |-> <<>>, http |-> <<>>,
           session |-> [addr |-> NIL, user |-> NIL, password |-> NIL]]

\* the directories and ages the program initialises the cache with
CacheDirs == {"cache"}
AgeDays == {0}

\* the resource strings and contents the program calls the cache with
CacheResources == {"http://h/a.zip#m1", "http://h/a.zip#m2", "ftp://h/g.gz"}
Payloads == {"c", "ab"}
Faults == {"none", "payload", "index"}

\* the calls of PutCachedFile: every payload and every outcome of the two
\* os.OpenFile calls for the first resource, one successful call for the other
PutInputs ==
    ({"http://h/a.zip#m1"} \X Payloads \X Faults) \cup {<<"ftp://h/g.gz", "c", "none">>}

\* the files a run starts with: the local file, and in directory cache nothing,
\* or the cache an earlier run left (an index document with one entry of day
\* 0 and its payload file), or that cache with the payload file removed
LocalFiles == ("/tmp/x.txt" :> "xyz") @@ ("/tmp/a.zip" :> ZipOf(ArchiveFiles))

OldIndex == ("cache/cacheinfo.json" :>
                "{http://h/a.zip|527dc57e57a42a73a8b8e2fa191ee14d|0;}")

OldPayload == ("cache/527dc57e57a42a73a8b8e2fa191ee14d" :> "old")

InitialDisks == {LocalFiles, OldIndex @@ LocalFiles, OldPayload @@ OldIndex @@ LocalFiles}

\* an index document cut short, and one that holds the JSON null
TruncatedIndex == ("cache/cacheinfo.json" :> "{http://h/a.zip|527dc57e57a42a")
NullIndex == ("cache/cacheinfo.json" :> NullDocument)

\* an index document whose second entry has a time stamp that does not decode
HalfIndex == ("cache/cacheinfo.json" :>
                 "{http://h/a.zip|527dc57e57a42a73a8b8e2fa191ee14d|0;ftp://h/g.gz|6321f3ee6f42d29fd556a4429e884f6a|x;}")

\* the files of a run that starts with a damaged cache: the index cannot be
\* decoded, or decodes in part, or decodes to null
DegradedDisks == {TruncatedIndex @@ OldPayload @@ LocalFiles, NullIndex @@ LocalFiles,
                  HalfIndex @@ OldPayload @@ LocalFiles}

InitCache(cpath, ageDays) ==
    /\ ~crashed
    /\ SetCacheState(InitCacheState(disk, cpath, ageDays))
    /\ puts' = <<>>
    /\ call' = [NoCall EXCEPT !.op = "InitCache", !.resource = cpath, !.ageDays = ageDays]
    /\ UNCHANGED proc
    /\ UNCHANGED <<fetchers, wrappers, obj, disk, now, held, net, crashed, cacheFault,
                   fetched>>

GetCachedFile(resource) ==
    /\ ~crashed
    /\ LET r == GetCachedResult(CacheState, disk, now, resource)
       IN  /\ SetCacheState(r.c)
           /\ call' = [NoCall EXCEPT !.op = "GetCachedFile", !.resource = resource,
                                     !.data = r.data]
    /\ UNCHANGED proc
    /\ UNCHANGED <<fetchers, wrappers, obj, disk, now, held, net, crashed, cacheFault, puts,
                   fetched>>

PutCachedFile(resource, data, fault) ==
    /\ ~crashed
    /\ LET r == PutCachedResult(CacheState, disk, now, resource, data, fault)
       IN  /\ SetCacheState(r.c)
           /\ disk' = r.disk
           /\ crashed' = r.panic
    /\ cacheFault' = (cacheFault \/ fault # "none")
    /\ puts' = (BaseResource(resource) :> data) @@ puts
    /\ call' = [NoCall EXCEPT !.op = "PutCachedFile", !.resource = resource, !.data = data]
    /\ UNCHANGED proc
    /\ UNCHANGED <<fetchers, wrappers, obj, now, held, net, fetched>>

\* a day passes
Tick ==
    /\ ~crashed
    /\ now < MaxTime
    /\ now' = now + 1
    /\ call' = NoCall
    /\ UNCHANGED proc
    /\ UNCHANGED <<fetchers, wrappers, obj, cachePath, cached, cacheAge, disk, held, net,
                   crashed, cacheFault, puts, fetched>>

-----------------------------------------------------------------------------
(* GetFetcher *)

\* the first loop of GetFetcher, from index i: the Fetchers whose Detect it
\* calls, in order, ending with the one that detects the resource (if any)
RECURSIVE Consulted(_, _, _)
Consulted(fs, resource, i) ==
    IF i > Len(fs) THEN <<>>
    ELSE IF Detect(fs[i], resource) THEN <<fs[i]>>
    ELSE <<fs[i]>> \o Consulted(fs, resource, i + 1)

\* a first loop without its break, which keeps the last Fetcher that detects
\* the resource: the variant of SelectFetcher that C5 must tell from it
SelectLastFetcher(fs, resource) ==
    IF {i \in 1..Len(fs) : Detect(fs[i], resource)} = {} THEN NIL
    ELSE fs[Greatest({i \in 1..Len(fs) : Detect(fs[i], resource)})]

\* rf after the first loop of GetFetcher
SelectFetcher(fs, resource) ==
    LET c == Consulted(fs, resource, 1)
    IN  IF c # <<>> /\ Detect(c[Len(c)], resource) THEN c[Len(c)] ELSE NIL

\* mainpath and pathpart of GetFetcher
MainPath(resource) ==
    LET furl == Parse(resource)
    IN  IF ~furl.err THEN furl.Path
        ELSE IF Contains(resource, "#") THEN SplitN2(resource, "#")[1]
        ELSE resource

PathPart(resource) ==
    LET furl == Parse(resource)
    IN  IF ~furl.err THEN furl.Fragment
        ELSE IF Contains(resource, "#") THEN SplitN2(resource, "#")[2]
        ELSE ""

\* a second loop that stops at the first wrapper it applies: the variant of
\* WrapLoop that C7 must tell from it
RECURSIVE WrapLoopFirstOnly(_, _, _, _, _)
WrapLoopFirstOnly(ws, mainpath, pathpart, i, st) ==
    IF i > Len(ws) THEN st
    ELSE IF DetectWrap(ws[i], mainpath, pathpart)
    THEN [obj |-> Wrap(DetectWrapHeap(st.obj, ws[i], mainpath, pathpart),
                       ws[i], st.f, pathpart).obj,
          f |-> Wrap(st.obj, ws[i], st.f, pathpart).f,
          err |-> Wrap(st.obj, ws[i], st.f, pathpart).err,
          applied |-> Append(st.applied, ws[i])]
    ELSE WrapLoopFirstOnly(ws, mainpath, pathpart, i + 1,
                           [st EXCEPT !.obj = DetectWrapHeap(st.obj, ws[i], mainpath,
                                                             pathpart)])

\* the second loop of GetFetcher, from index i, in the state st =
\* [obj, f, err, applied]: rf is st.f, err is st.err, and st.applied lists the
\* wrappers whose Wrap was called
RECURSIVE WrapLoop(_, _, _, _, _)
WrapLoop(ws, mainpath, pathpart, i, st) ==
    IF i > Len(ws) THEN st
    ELSE LET w == ws[i]
             o1 == DetectWrapHeap(st.obj, w, mainpath, pathpart)
             r == Wrap(o1, w, st.f, pathpart)
         IN  IF DetectWrap(w, mainpath, pathpart)
             THEN WrapLoop(ws, mainpath, pathpart, i + 1,
                           [obj |-> r.obj, f |-> r.f, err |-> r.err,
                            applied |-> Append(st.applied, w)])
             ELSE WrapLoop(ws, mainpath, pathpart, i + 1, [st EXCEPT !.obj = o1])

\* a GetFetcher without the return for rf == nil, which goes on to the
\* wrappers: the variant of GetFetcherResult that C8 must tell from it
GetFetcherNoReturn(fs, ws, o, resource) ==
    WrapLoop(ws, MainPath(resource), PathPart(resource), 1,
             [obj |-> o, f |-> SelectFetcher(fs, resource),
              err |-> IF Parse(resource).err THEN "url parse error" ELSE NIL,
              applied |-> <<>>])

\* GetFetcher(resource) on the registries fs, ws and the heap o
GetFetcherResult(fs, ws, o, resource) ==
    LET rf == SelectFetcher(fs, resource)
        perr == IF Parse(resource).err THEN "url parse error" ELSE NIL
    IN  IF rf = NIL
        THEN [obj |-> o, f |-> NIL, err |-> "no defined fetchers match", applied |-> <<>>]
        ELSE WrapLoop(ws, MainPath(resource), PathPart(resource), 1,
                      [obj |-> o, f |-> rf, err |-> perr, applied |-> <<>>])

\* the caller: v, err := GetFetcher(resource), v being its variable number slot
GetFetcher(resource, slot) ==
    /\ ~crashed
    /\ LET r == GetFetcherResult(fetchers, wrappers, obj, resource)
       IN  /\ obj' = r.obj
           /\ held' = [held EXCEPT ![slot] = [resource |-> resource, f |-> r.f,
                                                err |-> r.err]]
           /\ call' = [NoCall EXCEPT !.op = "GetFetcher", !.resource = resource,
                                     !.f = r.f, !.err = r.err,
                                     !.consulted = Consulted(fetchers, resource, 1),
                                     !.selected = SelectFetcher(fetchers, resource),
                                     !.applied = r.applied]
    /\ fetched' = [fetched EXCEPT !.slots[slot] = NIL]
    /\ UNCHANGED proc
    /\ UNCHANGED <<fetchers, wrappers, cachePath, cached, cacheAge, disk, now, net,
                   crashed, cacheFault, puts>>

\* RegisterFetcher(f), for a user's instance that is not registered yet
RegisterFetcher(f) ==
    /\ ~crashed
    /\ f \notin Range(fetchers)
    /\ fetchers' = Append(fetchers, f)
    /\ call' = [NoCall EXCEPT !.op = "RegisterFetcher", !.f = f]
    /\ UNCHANGED proc
    /\ UNCHANGED <<wrappers, obj, cachePath, cached, cacheAge, disk, now, held, net,
                   crashed, cacheFault, puts, fetched>>

\* a RegisterWrapper that puts w before the registered wrappers: the variant
\* of RegisterWrapper that C24 must tell from it
RegisterWrapperFirst(w) ==
    /\ ~crashed
    /\ w \notin Range(wrappers)
    /\ wrappers' = <<w>> \o wrappers
    /\ call' = [NoCall EXCEPT !.op = "RegisterWrapper", !.f = w]
    /\ UNCHANGED proc
    /\ UNCHANGED <<fetchers, obj, cachePath, cached, cacheAge, disk, now, held, net,
                   crashed, cacheFault, puts, fetched>>

\* RegisterWrapper(w), for a user's instance that is not registered yet
RegisterWrapper(w) ==
    /\ ~crashed
    /\ w \notin Range(wrappers)
    /\ wrappers' = Append(wrappers, w)
    /\ call' = [NoCall EXCEPT !.op = "RegisterWrapper", !.f = w]
    /\ UNCHANGED proc
    /\ UNCHANGED <<fetchers, obj, cachePath, cached, cacheAge, disk, now, held, net,
                   crashed, cacheFault, puts, fetched>>

-----------------------------------------------------------------------------
(* Fetch.  The network is the environment: reply is what the server and    *)
(* the transport do when Fetch goes to the network, fault what the disk    *)
(* does when the download is stored in the cache.                          *)

\* cli.Do fails; or the body is read in full; or reading the body fails
\* after a part of it; or the server answers with a status that is not a
\* success (401, 404, 500), for which cli.Do returns the response and a nil
\* error, the body being the server's error page
HttpReplies == {[kind |-> "connfail", body |-> ""], [kind |-> "ok", body |-> "ab"],
                [kind |-> "readerr", body |-> "a"], [kind |-> "status", body |-> "e"]}

\* goftp.Connect, ftp.Login or ftp.Retr fails; or the file is read in full;
\* or reading it fails after a part of it
FtpReplies == {[kind |-> "connfail", body |-> ""], [kind |-> "ok", body |-> "ab"],
               [kind |-> "readerr", body |-> "a"], [kind |-> "loginfail", body |-> ""],
               [kind |-> "retrfail", body |-> ""]}

\* what the network can do for a Fetch on the base Fetcher named base
RepliesOf(base) == IF base = "http" THEN HttpReplies ELSE FtpReplies

\* whether a Fetch of resource on the object named base goes to the network:
\* it is an HTTP or FTP fetcher, GetCachedFile returned nil and url.Parse no
\* error
NetworkUsed(c, dsk, t, base, resource) ==
    /\ base \in {"http", "ftp"}
    /\ GetCachedResult(c, dsk, t, resource).data = NIL
    /\ ~Parse(resource).err

\* a Fetch that stops before any download: n.data is what GetCachedFile
\* returned (g.data), the cache state what GetCachedFile left
NoDownload(o, id, g, dsk, err) ==
    [obj |-> [o EXCEPT ![id].data = g.data], c |-> g.c, disk |-> dsk, err |-> err,
     panic |-> FALSE, retrieved |-> NIL]

\* the end of httpFetcher.Fetch and ftpFetcher.Fetch: n.data, err =
\* ioutil.ReadAll(...); PutCachedFile(resource, n.data); return err
Downloaded(o, id, t, resource, reply, put) ==
    [obj |-> [o EXCEPT ![id].data = reply.body], c |-> put.c, disk |-> put.disk,
     err |-> IF reply.kind = "readerr" THEN "read error" ELSE NIL,
     panic |-> put.panic, retrieved |-> BaseResource(resource)]

\* an httpFetcher.Fetch that goes to the network whatever GetCachedFile
\* returned: the variant of HttpFetchAfterGet that C17 must tell from it
HttpFetchAlways(o, g, dsk, t, resource, reply, fault) ==
    IF Parse(resource).err THEN NoDownload(o, "http", g, dsk, "url parse error")
    ELSE IF reply.kind = "connfail" THEN NoDownload(o, "http", g, dsk, "request failed")
    ELSE Downloaded(o, "http", t, resource, reply,
                    PutCachedResult(g.c, dsk, t, resource, reply.body, fault))

\* httpFetcher.Fetch after n.data = GetCachedFile(resource), g being what
\* GetCachedFile returned and left
HttpFetchAfterGet(o, g, dsk, t, resource, reply, fault) ==
    IF g.data # NIL THEN NoDownload(o, "http", g, dsk, NIL)
    ELSE IF Parse(resource).err THEN NoDownload(o, "http", g, dsk, "url parse error")
    ELSE IF reply.kind = "connfail" THEN NoDownload(o, "http", g, dsk, "request failed")
    ELSE Downloaded(o, "http", t, resource, reply,
                    PutCachedResult(g.c, dsk, t, resource, reply.body, fault))

\* a Fetch that sends the request again when cli.Do fails: the variant of
\* HttpCalls that C31 must tell from it
HttpCallsRetry(kind) ==
    CASE kind = "connfail" -> <<"Do failed", "Do failed">>
      [] kind = "readerr"  -> <<"Do", "ReadAll failed", "Close", "Do", "ReadAll", "Close">>
      [] OTHER             -> <<"Do", "ReadAll", "Close">>

\* the calls httpFetcher.Fetch makes on net/http when it goes to the network,
\* in order, for each reply: cli.Do(req), ioutil.ReadAll(resp.Body),
\* resp.Body.Close()
HttpCalls(kind) ==
    CASE kind = "connfail" -> <<"Do failed">>
      [] kind = "readerr"  -> <<"Do", "ReadAll failed", "Close">>
      [] OTHER             -> <<"Do", "ReadAll", "Close">>

\* httpFetcher.Fetch
HttpFetch(o, c, dsk, t, resource, reply, fault) ==
    HttpFetchAfterGet(o, GetCachedResult(c, dsk, t, resource), dsk, t, resource, reply, fault)

\* a return that runs the deferred calls in the order they were deferred:
\* the variant of Deferred that C23 must tell from it
DeferredInOrder(calls, defers) == calls \o defers

\* the return of a function: the calls it made, then the calls it deferred,
\* the last deferred first
Deferred(calls, defers) ==
    calls \o [i \in 1..Len(defers) |-> defers[Len(defers) + 1 - i]]

\* the calls ftpFetcher.Fetch makes on the FTP library when it goes to the
\* network, in order, for each reply: defer ftp.Quit() follows a Connect
\* that succeeded, defer ftp.Logout() a Login that succeeded
FtpCalls(kind) ==
    CASE kind = "connfail"  -> Deferred(<<"Connect failed">>, <<>>)
      [] kind = "loginfail" -> Deferred(<<"Connect", "Login failed">>, <<"Quit">>)
      [] kind = "retrfail"  -> Deferred(<<"Connect", "Login", "Retr failed">>,
                                        <<"Quit", "Logout">>)
      [] kind = "readerr"   -> Deferred(<<"Connect", "Login", "Retr", "ReadAll failed",
                                          "Close">>, <<"Quit", "Logout">>)
      [] OTHER              -> Deferred(<<"Connect", "Login", "Retr", "ReadAll", "Close">>,
                                        <<"Quit", "Logout">>)

\* the address ftpFetcher.Fetch passes to goftp.Connect
FtpAddress(furl) ==
    IF ~Contains(furl.Host, ":") THEN furl.Host \o ":21" ELSE furl.Host

\* fusername and fpassword at ftp.Login(fusername, fpassword)
FtpUsername(furl) == IF furl.HasUser THEN furl.Username ELSE "anonymous"
FtpPassword(furl) ==
    IF furl.HasUser /\ furl.HasPassword THEN furl.Password ELSE "anythingoes"

\* the arguments of goftp.Connect and ftp.Login in a Fetch of resource that
\* goes to the network: user and password are nil when Connect fails and
\* Login is not called
FtpSession(resource, kind) ==
    [addr |-> FtpAddress(Parse(resource)),
     user |-> IF kind = "connfail" THEN NIL ELSE FtpUsername(Parse(resource)),
     password |-> IF kind = "connfail" THEN NIL ELSE FtpPassword(Parse(resource))]

\* no FTP connection
NoSession == [addr |-> NIL, user |-> NIL, password |-> NIL]

\* ftpFetcher.Fetch after n.data = GetCachedFile(resource)
FtpFetchAfterGet(o, g, dsk, t, resource, reply, fault) ==
    IF g.data # NIL THEN NoDownload(o, "ftp", g, dsk, NIL)
    ELSE IF Parse(resource).err THEN NoDownload(o, "ftp", g, dsk, "url parse error")
    ELSE IF reply.kind = "connfail" THEN NoDownload(o, "ftp", g, dsk, "connect failed")
    ELSE IF reply.kind = "loginfail" THEN NoDownload(o, "ftp", g, dsk, "login failed")
    ELSE IF reply.kind = "retrfail" THEN NoDownload(o, "ftp", g, dsk, "retr failed")
    ELSE Downloaded(o, "ftp", t, resource, reply,
                    PutCachedResult(g.c, dsk, t, resource, reply.body, fault))

\* ftpFetcher.Fetch
FtpFetch(o, c, dsk, t, resource, reply, fault) ==
    FtpFetchAfterGet(o, GetCachedResult(c, dsk, t, resource), dsk, t, resource, reply, fault)

\* os.Open(name) in localFetcher.Fetch: n.f is the open file (its name), or
\* nil with an error when there is no such file
LocalOpen(o, c, dsk, name) ==
    [obj |-> [o EXCEPT !["local"].f = IF Exists(dsk, name) THEN name ELSE NIL,
                       !["local"].pos = 0],
     c |-> c, disk |-> dsk,
     err |-> IF Exists(dsk, name) THEN NIL ELSE "no such file",
     panic |-> FALSE, retrieved |-> NIL]

\* localFetcher.Fetch
LocalFetch(o, c, dsk, resource) ==
    IF Parse(resource).err THEN LocalOpen(o, c, dsk, resource)
    ELSE LocalOpen(o, c, dsk, Parse(resource).Path)

Kinds == {"bz", "gz", "zip", "tar", "uw1", "uw2"}

\* Fetch on the object named id.  A wrapper's Fetch is n.wrapped.Fetch(resource),
\* which panics when n.wrapped is nil.  uf1, the user's fetcher, fetches
\* nothing.
RECURSIVE FetchResult(_, _, _, _, _, _, _, _)
FetchResult(o, c, dsk, t, id, resource, reply, fault) ==
    CASE id = "local" -> LocalFetch(o, c, dsk, resource)
      [] id = "http"  -> HttpFetch(o, c, dsk, t, resource, reply, fault)
      [] id = "ftp"   -> FtpFetch(o, c, dsk, t, resource, reply, fault)
      [] id \in Kinds /\ o[id].wrapped # NIL ->
            FetchResult(o, c, dsk, t, o[id].wrapped, resource, reply, fault)
      [] id \in Kinds /\ o[id].wrapped = NIL ->
            [obj |-> o, c |-> c, disk |-> dsk, err |-> NIL, panic |-> TRUE,
             retrieved |-> NIL]
      [] OTHER ->
            [obj |-> o, c |-> c, disk |-> dsk, err |-> NIL, panic |-> FALSE,
             retrieved |-> NIL]

\* the base Fetcher under the object named id (NIL under a wrapper of nil)
RECURSIVE Base(_, _)
Base(o, id) ==
    IF id \in Kinds THEN (IF o[id].wrapped = NIL THEN NIL ELSE Base(o, o[id].wrapped))
    ELSE id

\* the most downloads of one base resource in a run
MaxNet == 2

\* the record of the downloads of a base resource: how many, and the day of
\* the latest
Retrieved(n, key, t) ==
    IF key = NIL THEN n
    ELSE (key :> [count |-> (IF key \in DOMAIN n THEN n[key].count ELSE 0) + 1,
                  last |-> t]) @@ n

\* what a Fetch on the base Fetcher named base left for the caller to read:
\* the bytes in n.data, or the content of the file localFetcher opened
Payload(o, dsk, base) ==
    IF base \in {"http", "ftp"} THEN o[base].data
    ELSE IF base = "local" /\ o["local"].f # NIL THEN dsk[o["local"].f]
    ELSE NIL

\* the record of a Fetch on the caller's variable slot, on the base Fetcher
\* named base, that returned err
Fetched(fd, slot, base, err, payload) ==
    IF err = NIL
    THEN [objs |-> fd.objs \cup {base}, slots |-> [fd.slots EXCEPT ![slot] = payload]]
    ELSE [fd EXCEPT !.slots[slot] = NIL]

\* the caller: err = v.Fetch(resource), for a variable v that holds the
\* Fetcher GetFetcher returned for resource without an error
Fetch(slot, reply, fault) ==
    /\ ~crashed
    /\ held[slot].f # NIL
    /\ held[slot].err = NIL
    /\ LET r == FetchResult(obj, CacheState, disk, now, held[slot].f,
                            held[slot].resource, reply, fault)
       IN  /\ r.retrieved # NIL /\ r.retrieved \in DOMAIN net
                => net[r.retrieved].count < MaxNet
           /\ obj' = r.obj
           /\ SetCacheState(r.c)
           /\ disk' = r.disk
           /\ crashed' = r.panic
           /\ net' = Retrieved(net, r.retrieved, now)
           /\ cacheFault' = (cacheFault \/ (r.retrieved # NIL /\ fault # "none"))
           /\ puts' = IF r.retrieved = NIL THEN puts
                      ELSE (r.retrieved :> reply.body) @@ puts
           /\ call' = [NoCall EXCEPT !.op = "Fetch", !.resource = held[slot].resource,
                                     !.f = held[slot].f, !.err = r.err,
                                     !.reply = IF NetworkUsed(CacheState, disk, now,
                                                      Base(obj, held[slot].f),
                                                      held[slot].resource)
                                               THEN reply.kind ELSE "none",
                                     !.ftp = IF /\ Base(obj, held[slot].f) = "ftp"
                                                /\ NetworkUsed(CacheState, disk, now, "ftp",
                                                               held[slot].resource)
                                             THEN FtpCalls(reply.kind) ELSE <<>>,
                                     !.session =
                                         IF /\ Base(obj, held[slot].f) = "ftp"
                                            /\ NetworkUsed(CacheState, disk, now, "ftp",
                                                           held[slot].resource)
                                         THEN FtpSession(held[slot].resource, reply.kind)
                                         ELSE NoSession,
                                     !.http = IF /\ Base(obj, held[slot].f) = "http"
                                                 /\ NetworkUsed(CacheState, disk, now, "http",
                                                                held[slot].resource)
                                              THEN HttpCalls(reply.kind) ELSE <<>>]
           /\ fetched' = IF r.panic THEN fetched
                         ELSE Fetched(fetched, slot, Base(obj, held[slot].f), r.err,
                                      Payload(r.obj, r.disk, Base(obj, held[slot].f)))
    /\ UNCHANGED proc
    /\ UNCHANGED <<fetchers, wrappers, now, held>>

-----------------------------------------------------------------------------
(* GetReader.  Its result is [err, r, read, panic]: the error and the      *)
(* io.Reader it returns, whether it has read from the Fetcher at the base, *)
(* and whether it panicked.                                                *)

NoReader(err, read) == [err |-> err, r |-> FailingReader, read |-> read, panic |-> FALSE]

\* localFetcher.GetReader: return n.f, nil.  Reading a nil *os.File fails.
LocalGetReader(o, dsk) ==
    [err |-> NIL,
     r |-> IF o["local"].f = NIL THEN FailingReader
           ELSE BytesReader(SubSeq(dsk[o["local"].f], o["local"].pos + 1,
                                   Len(dsk[o["local"].f]))),
     read |-> FALSE, panic |-> FALSE]

\* httpFetcher.GetReader and ftpFetcher.GetReader
DataGetReader(o, id) ==
    IF o[id].data = NIL \/ Len(o[id].data) = 0
    THEN NoReader("reading from source failed (did you call Fetch?)", FALSE)
    ELSE [err |-> NIL, r |-> BytesReader(o[id].data), read |-> FALSE, panic |-> FALSE]

\* gzWrapper.GetReader, inner being what n.wrapped.GetReader() returned
GzGetReader(inner) ==
    IF inner.panic \/ inner.err # NIL THEN inner
    ELSE [err |-> GzipNewReader(inner.r).err, r |-> GzipNewReader(inner.r).r,
          read |-> TRUE, panic |-> FALSE]

\* bzWrapper.GetReader
BzGetReader(inner) ==
    IF inner.panic \/ inner.err # NIL THEN inner
    ELSE [inner EXCEPT !.r = Bzip2NewReader(inner.r)]

\* a loop over zr.File that opens the first file when none is called
\* insideName: the variant of ZipOpen that C14 must tell from it
ZipOpenAny(zr, i, insideName) ==
    IF zr.err THEN NoReader("zip: not a valid zip file", TRUE)
    ELSE IF zr.File = <<>> THEN NoReader("reading from .zip failed", TRUE)
    ELSE [err |-> NIL, r |-> BytesReader(zr.File[IF i = 0 THEN 1 ELSE i].content),
          read |-> TRUE, panic |-> FALSE]

\* the end of zipWrapper.GetReader: the loop over zr.File
ZipOpen(zr, i, insideName) ==
    IF zr.err THEN NoReader("zip: not a valid zip file", TRUE)
    ELSE IF i = 0 THEN NoReader("reading from .zip failed", TRUE)
    ELSE [err |-> NIL, r |-> BytesReader(zr.File[i].content), read |-> TRUE,
          panic |-> FALSE]

\* zipWrapper.GetReader
ZipGetReader(inner, insideName) ==
    IF inner.panic \/ inner.err # NIL THEN inner
    ELSE IF inner.r.fails THEN NoReader("read error", TRUE)
    ELSE ZipOpen(ZipNewReader(inner.r.data),
                 FindFile(ZipNewReader(inner.r.data).File, insideName), insideName)

\* the end of tarballWrapper.GetReader: the loop over tr.Next()
TarOpen(fs, i) ==
    IF i = 0 THEN NoReader("reading from .tar failed", TRUE)
    ELSE [err |-> NIL, r |-> BytesReader(fs[i].content), read |-> TRUE, panic |-> FALSE]

TarFind(r, insideName) == TarOpen(TarFiles(r), FindFile(TarFiles(r), insideName))

\* tarballWrapper.GetReader
TarGetReader(inner, compType, insideName) ==
    IF inner.panic \/ inner.err # NIL THEN inner
    ELSE IF compType = "" THEN NoReader("unknown tarball error", inner.read)
    ELSE IF compType = "gzip"
    THEN (IF GzipNewReader(inner.r).err # NIL
          THEN NoReader(GzipNewReader(inner.r).err, TRUE)
          ELSE TarFind(GzipNewReader(inner.r).r, insideName))
    ELSE IF compType = "bzip2" THEN TarFind(Bzip2NewReader(inner.r), insideName)
    ELSE TarFind(inner.r, insideName)

\* GetReader on the object named id.  A wrapper's GetReader starts with
\* n.wrapped.GetReader(), which panics when n.wrapped is nil.  The user's
\* wrappers return what the wrapped Fetcher returns; uf1, the user's fetcher,
\* has fetched nothing.
RECURSIVE GetReaderResult(_, _, _)
GetReaderResult(o, dsk, id) ==
    CASE id = "local" -> LocalGetReader(o, dsk)
      [] id \in {"http", "ftp"} -> DataGetReader(o, id)
      [] id \in Kinds /\ o[id].wrapped = NIL ->
            [err |-> NIL, r |-> FailingReader, read |-> FALSE, panic |-> TRUE]
      [] id = "gz" /\ o[id].wrapped # NIL ->
            GzGetReader(GetReaderResult(o, dsk, o[id].wrapped))
      [] id = "bz" /\ o[id].wrapped # NIL ->
            BzGetReader(GetReaderResult(o, dsk, o[id].wrapped))
      [] id = "zip" /\ o[id].wrapped # NIL ->
            ZipGetReader(GetReaderResult(o, dsk, o[id].wrapped), o[id].insideName)
      [] id = "tar" /\ o[id].wrapped # NIL ->
            TarGetReader(GetReaderResult(o, dsk, o[id].wrapped), o[id].compType,
                         o[id].insideName)
      [] id \in {"uw1", "uw2"} /\ o[id].wrapped # NIL ->
            GetReaderResult(o, dsk, o[id].wrapped)
      [] OTHER -> NoReader("nothing fetched", FALSE)

\* the read offset of the file of localFetcher after GetReader and the
\* reading: what was read from the file is read up to its end (the files are
\* shorter than one read)
Offset(o, dsk, base, r) ==
    IF base = "local" /\ o["local"].f # NIL /\ (r.read \/ r.err = NIL)
    THEN [o EXCEPT !["local"].pos = Len(dsk[o["local"].f])]
    ELSE o

\* the caller: r, err := v.GetReader(), and when err is nil
\* data, err2 := ioutil.ReadAll(r), for a variable v that holds the Fetcher
\* GetFetcher returned without an error
GetReader(slot) ==
    /\ ~crashed
    /\ held[slot].f # NIL
    /\ held[slot].err = NIL
    /\ LET r == GetReaderResult(obj, disk, held[slot].f)
       IN  /\ obj' = IF r.panic THEN obj ELSE Offset(obj, disk, Base(obj, held[slot].f), r)
           /\ crashed' = r.panic
           /\ call' = [NoCall EXCEPT !.op = "GetReader", !.resource = held[slot].resource,
                                     !.f = held[slot].f, !.err = r.err,
                                     !.data = IF r.err = NIL THEN r.r.data ELSE NIL,
                                     !.readerr = (r.err = NIL /\ r.r.fails)]
    /\ UNCHANGED proc
    /\ UNCHANGED <<fetchers, wrappers, cachePath, cached, cacheAge, disk, now, held, net,
                   cacheFault, puts, fetched>>

-----------------------------------------------------------------------------
(* The state after init(): the default registries, no cache *)

InitOn(disks) ==
    /\ fetchers = BuiltinFetchers
    /\ wrappers = BuiltinWrappers
    /\ obj = [id \in Objects |-> ZeroObject]
    /\ cachePath = ""
    /\ cached = NilMap
    /\ cacheAge = 0
    /\ disk \in disks
    /\ now = 0
    /\ held = [i \in 1..MaxHeld |-> [resource |-> "", f |-> NIL, err |-> NIL]]
    /\ call = NoCall
    /\ net = <<>>
    /\ crashed = FALSE
    /\ cacheFault = FALSE
    /\ puts = <<>>
    /\ fetched = [objs |-> {}, slots |-> [i \in 1..MaxHeld |-> NIL]]
    /\ proc = [p \in Procs |-> Idle]

Init == InitOn(InitialDisks)

DoGetFetcher == \E r \in Resources : GetFetcher(r, 1)
DoRegisterFetcher == \E f \in UserFetchers : RegisterFetcher(f)
DoRegisterWrapper == \E w \in UserWrappers : RegisterWrapper(w)

NextResolve == DoGetFetcher \/ DoRegisterFetcher \/ DoRegisterWrapper

\* GetFetcher and the Register functions never touch the disk: the program
\* that only resolves Fetchers starts on the disk without a cache directory
InitResolve == Init /\ disk = LocalFiles

SpecResolve == InitResolve /\ [][NextResolve]_vars

\* the program that reads local files: it keeps the registries of init(),
\* holds up to MaxHeld Fetchers and calls Fetch on them
LocalResources == {"/tmp/x.txt", "file:///tmp/x.txt", "file:///tmp/x%2etxt",
                   "file:///tmp/none"}

DoGetLocalFetcher == \E r \in LocalResources, slot \in 1..MaxHeld : GetFetcher(r, slot)

DoFetchLocal == \E slot \in 1..MaxHeld :
                   /\ Base(obj, held[slot].f) = "local"
                   /\ Fetch(slot, [kind |-> "ok", body |-> "ab"], "none")

NextLocal == DoGetLocalFetcher \/ DoFetchLocal

SpecLocal == Init /\ [][NextLocal]_vars

DoInitCache == \E d \in CacheDirs, n \in AgeDays : InitCache(d, n)
DoGetCachedFile == \E r \in CacheResources : GetCachedFile(r)
DoPutCachedFile == \E i \in PutInputs : PutCachedFile(i[1], i[2], i[3])

NextCache == DoInitCache \/ DoGetCachedFile \/ DoPutCachedFile \/ Tick

SpecCache == Init /\ [][NextCache]_vars

\* the program that caches resources of one path: it initialises the cache,
\* puts a payload under each of the resource strings and looks each of them up
KeyInputs ==
    {<<"http://h/a.zip#m1", "ab">>, <<"http://h/a.zip#m2", "c">>, <<"http://h/a.zip", "c">>,
     <<"ftp://h/a.zip", "c">>, <<"http://g/a.zip", "c">>, <<"http://u@h/a.zip", "c">>,
     <<"http://h/a.zip?q", "c">>}

DoGetKey == \E r \in KeyResources : GetCachedFile(r)
DoPutKey == \E i \in KeyInputs : PutCachedFile(i[1], i[2], "none")

NextKeys == DoInitCache \/ DoGetKey \/ DoPutKey

SpecKeys == Init /\ [][NextKeys]_vars

\* the resource strings of the program that fetches: two members of one
\* archive over FTP, two members of one archive over HTTP
NetResources == {"ftp://h/t.tar.gz#m1", "ftp://h/t.tar.gz#m2",
                 "http://h/a.zip#m1", "http://h/a.zip#m2"}

\* the program initialises the cache at most once, before it uses it
InitCacheOnce == cached.isNil /\ DoInitCache

\* the program works on one base resource: the one of the Fetchers it holds
SameBase(r) ==
    \A i \in 1..MaxHeld :
        held[i].resource = "" \/ BaseResource(held[i].resource) = BaseResource(r)

DoGetNetFetcher == \E r \in NetResources : SameBase(r) /\ GetFetcher(r, 1)

DoFetch == \E reply \in RepliesOf(Base(obj, held[1].f)), fault \in Faults :
              Fetch(1, reply, fault)

NextFetch == InitCacheOnce \/ DoGetNetFetcher \/ DoFetch \/ Tick

SpecFetch == Init /\ [][NextFetch]_vars

\* the ages a program may ask for: less than a day, a few days, and the
\* two sides of the longest time.Duration
AgeInputs == {0 - 1, 0, 1, 2, MaxDurationDays, MaxDurationDays + 1}

\* the program that sets the age of the cache and looks resources up
DoInitAge == \E d \in CacheDirs, n \in AgeInputs : InitCache(d, n)

NextAge == DoInitAge \/ DoGetCachedFile \/ Tick

SpecAge == Init /\ [][NextAge]_vars

\* the program that sets the age of the cache and looks resources up,
\* started on a damaged cache or on none
InitLoad == InitOn(DegradedDisks \cup {LocalFiles})

SpecLoad == InitLoad /\ [][NextAge]_vars

\* the program that fetches, started on a damaged cache
InitDegraded == InitOn(DegradedDisks)

SpecDegraded == InitDegraded /\ [][NextFetch]_vars

\* what the servers hold under a resource string: an archive of
\* ArchiveFiles in the format its suffix names, or a compressed file
Served(resource) ==
    CASE HasSuffix(BaseResource(resource), ".zip") -> ZipOf(ArchiveFiles)
      [] HasSuffix(BaseResource(resource), ".tar") -> TarOf(ArchiveFiles)
      [] \/ HasSuffix(BaseResource(resource), ".tar.gz")
         \/ HasSuffix(BaseResource(resource), ".tgz") -> GzipOf(TarOf(ArchiveFiles))
      [] \/ HasSuffix(BaseResource(resource), ".tar.bz2")
         \/ HasSuffix(BaseResource(resource), ".tbz2")
         \/ HasSuffix(BaseResource(resource), ".tar.bzip2") -> Bzip2Of(TarOf(ArchiveFiles))
      [] HasSuffix(BaseResource(resource), ".gz") -> GzipOf("gg")
      [] HasSuffix(BaseResource(resource), ".bz2") -> Bzip2Of("bb")
      [] OTHER -> "ab"

\* what the network does for a Fetch of the resource: the connection fails;
\* or the whole content arrives; or the reading fails after its first bytes;
\* or, over HTTP, the server answers with an error status and its error page
ServedReplies(resource) ==
    {[kind |-> "connfail", body |-> ""],
     [kind |-> "ok", body |-> Served(resource)],
     [kind |-> "readerr",
      body |-> SubSeq(Served(resource), 1,
                      IF Len(Served(resource)) < 3 THEN Len(Served(resource)) ELSE 3)]}
        \cup (IF HasPrefix(resource, "http://") THEN {[kind |-> "status", body |-> "e"]}
              ELSE {})

\* the program that reads: it gets a Fetcher for a member of one archive or
\* for one file, calls Fetch and GetReader on it and reads the stream
ReadResources ==
    {"file:///tmp/x.txt", "http://h/a.zip#m1", "http://h/a.zip#m2",
     "ftp://h/t.tar.gz#m1", "ftp://h/t.tar.gz#m2", "ftp://h/g.gz", "ftp://h/b.bz2"}
        \cup ArchiveResources

DoGetReadFetcher == \E r \in ReadResources : SameBase(r) /\ GetFetcher(r, 1)

DoFetchServed == \E reply \in ServedReplies(held[1].resource) : Fetch(1, reply, "none")

DoGetReader == GetReader(1)

NextRead == DoGetReadFetcher \/ DoFetchServed \/ DoGetReader

SpecRead == Init /\ [][NextRead]_vars

\* the program that reads plain files: it initialises the cache, gets a
\* Fetcher for one file, calls Fetch and GetReader on it and reads the
\* stream, over days.  The file on the server may be empty.
PlainReplies(base) == RepliesOf(base) \cup {[kind |-> "ok", body |-> ""]}

DoGetPlainFetcher == \E r \in PlainResources : SameBase(r) /\ GetFetcher(r, 1)

DoFetchPlain == \E reply \in PlainReplies(Base(obj, held[1].f)) : Fetch(1, reply, "none")

NextPlain == InitCacheOnce \/ DoGetPlainFetcher \/ DoFetchPlain \/ DoGetReader \/ Tick

SpecPlain == Init /\ [][NextPlain]_vars

-----------------------------------------------------------------------------
(* Fetch called from several goroutines.  Nothing in the package locks:    *)
(* the statements of httpFetcher.Fetch, GetCachedFile and PutCachedFile of *)
(* one goroutine interleave with those of the others.  Every goroutine     *)
(* uses the one registered httpFetcher and the one map cached.  An access  *)
(* to the map while another goroutine is at its assignment to the map is a *)
(* data race: the access happens, or the runtime stops the program         *)
(* ("fatal error: concurrent map writes").                                 *)

\* the resource strings each goroutine may fetch: two members of one archive
\* and one other file
RaceResources(p) ==
    CASE p = "g1" -> {"http://h/a.zip#m1"}
      [] p = "g2" -> {"http://h/a.zip#m2", "http://h/x.txt"}
      [] OTHER    -> {"http://h/x.txt"}

\* whether the access of goroutine p to the map cached races with another
\* goroutine's: one of the two is the assignment cached[rparts[0]] = ...
MapRace(p, pcs) == \E q \in Procs \ {p} : proc[q].pc \in pcs

\* what an access to the map does: it happens, or under a race the runtime
\* may stop the program
MapAccess(p, pcs) == IF MapRace(p, pcs) THEN {"done", "fatal"} ELSE {"done"}

Fatal ==
    /\ crashed' = TRUE
    /\ UNCHANGED <<fetchers, wrappers, obj, cachePath, cached, cacheAge, disk, now, held,
                   call, net, cacheFault, puts, fetched, proc>>

\* a write of the index document that serializes the index again: the
\* variant of IndexDocument that C37 must tell from it
IndexDocumentFresh(cdata, m) == Marshal(m)

\* the bytes f.Write(cdata) writes to cacheinfo.json: what json.Marshal
\* returned earlier in the call, whatever the index m holds by now
IndexDocument(cdata, m) == cdata

\* goroutine p calls Fetch(resource): n.data = GetCachedFile(resource), and
\* return nil when n.data != nil
RaceLookup(p, resource) ==
    /\ ~crashed
    /\ proc[p].pc = "idle"
    /\ \E outcome \in MapAccess(p, {"assign"}) :
           IF outcome = "fatal" THEN Fatal
           ELSE LET g == GetCachedResult(CacheState, disk, now, resource)
                IN  /\ SetCacheState(g.c)
                    /\ obj' = [obj EXCEPT !["http"].data = g.data]
                    /\ proc' = [proc EXCEPT ![p] = [pc |-> IF g.data # NIL THEN "done"
                                                           ELSE "request",
                                                    resource |-> resource, cdata |-> NIL]]
                    /\ call' = [NoCall EXCEPT !.op = "go Fetch", !.f = p,
                                              !.resource = resource, !.data = g.data]
                    /\ UNCHANGED <<fetchers, wrappers, disk, now, held, net, crashed,
                                   cacheFault, puts, fetched>>

\* resp, err := cli.Do(req); n.data, err = ioutil.ReadAll(resp.Body)
RaceRequest(p) ==
    /\ ~crashed
    /\ proc[p].pc = "request"
    /\ obj' = [obj EXCEPT !["http"].data = Served(proc[p].resource)]
    /\ net' = Retrieved(net, BaseResource(proc[p].resource), now)
    /\ proc' = [proc EXCEPT ![p].pc = "payload"]
    /\ call' = [NoCall EXCEPT !.op = "cli.Do", !.f = p, !.resource = proc[p].resource]
    /\ UNCHANGED <<fetchers, wrappers, cachePath, cached, cacheAge, disk, now, held,
                   crashed, cacheFault, puts, fetched>>

\* PutCachedFile(resource, n.data), up to the write of the payload file
RacePayload(p) ==
    /\ ~crashed
    /\ proc[p].pc = "payload"
    /\ disk' = WriteFile(disk, PathJoin(cachePath, MD5Hex(CacheKey(proc[p].resource))),
                         obj["http"].data)
    /\ proc' = [proc EXCEPT ![p].pc = "assign"]
    /\ call' = [NoCall EXCEPT !.op = "write payload", !.f = p,
                              !.resource = proc[p].resource, !.data = obj["http"].data]
    /\ UNCHANGED <<fetchers, wrappers, obj, cachePath, cached, cacheAge, now, held, net,
                   crashed, cacheFault, puts, fetched>>

\* cached[rparts[0]] = cachedfile{LocalName: tempname, FetchTime: time.Now()}
RaceAssign(p) ==
    /\ ~crashed
    /\ proc[p].pc = "assign"
    /\ \E outcome \in MapAccess(p, {"assign", "marshal"}) :
           IF outcome = "fatal" THEN Fatal
           ELSE /\ cached' = SetEntry(cached, CacheKey(proc[p].resource),
                                      MD5Hex(CacheKey(proc[p].resource)), now)
                /\ proc' = [proc EXCEPT ![p].pc = "marshal"]
                /\ call' = [NoCall EXCEPT !.op = "assign", !.f = p,
                                          !.resource = proc[p].resource]
                /\ UNCHANGED <<fetchers, wrappers, obj, cachePath, cacheAge, disk, now,
                               held, net, crashed, cacheFault, puts, fetched>>

\* cdata, err := json.Marshal(cached)
RaceMarshal(p) ==
    /\ ~crashed
    /\ proc[p].pc = "marshal"
    /\ \E outcome \in MapAccess(p, {"assign"}) :
           IF outcome = "fatal" THEN Fatal
           ELSE /\ proc' = [proc EXCEPT ![p].pc = "index", ![p].cdata = Marshal(cached.m)]
                /\ call' = [NoCall EXCEPT !.op = "marshal", !.f = p,
                                          !.resource = proc[p].resource]
                /\ UNCHANGED <<fetchers, wrappers, obj, cachePath, cached, cacheAge, disk,
                               now, held, net, crashed, cacheFault, puts, fetched>>

\* the write of cacheinfo.json, and the return of PutCachedFile and of Fetch
RaceIndex(p) ==
    /\ ~crashed
    /\ proc[p].pc = "index"
    /\ disk' = WriteFile(disk, PathJoin(cachePath, IndexFile),
                         IndexDocument(proc[p].cdata, cached.m))
    /\ proc' = [proc EXCEPT ![p].pc = "done"]
    /\ call' = [NoCall EXCEPT !.op = "write index", !.f = p,
                              !.resource = proc[p].resource]
    /\ UNCHANGED <<fetchers, wrappers, obj, cachePath, cached, cacheAge, now, held, net,
                   crashed, cacheFault, puts, fetched>>

\* the program whose goroutines each call Fetch once on the HTTP fetcher
DoRaceLookup == \E p \in Procs : \E r \in RaceResources(p) : RaceLookup(p, r)
DoRaceRequest == \E p \in Procs : RaceRequest(p)
DoRacePayload == \E p \in Procs : RacePayload(p)
DoRaceAssign == \E p \in Procs : RaceAssign(p)
DoRaceMarshal == \E p \in Procs : RaceMarshal(p)
DoRaceIndex == \E p \in Procs : RaceIndex(p)

NextRace ==
    \/ DoRaceLookup \/ DoRaceRequest \/ DoRacePayload \/ DoRaceAssign \/ DoRaceMarshal
    \/ DoRaceIndex

SpecRace == InitResolve /\ [][NextRace]_vars

\* the program that holds several Fetchers at a time, for different
\* resource strings, and reads from each: its first variable is for one
\* resource string, the others for another of the same scheme
ShareResources(slot) ==
    IF slot = 1 THEN {"ftp://h/g.gz", "http://h/a.zip#m1"}
    ELSE {"ftp://h/b.bz2", "http://h/a.zip#m2"}

DoGetSharedFetcher == \E slot \in 1..MaxHeld :
                         \E r \in ShareResources(slot) : GetFetcher(r, slot)

DoFetchShared == \E slot \in 1..MaxHeld :
                    \E reply \in ServedReplies(held[slot].resource) : Fetch(slot, reply, "none")

DoGetSharedReader == \E slot \in 1..MaxHeld : GetReader(slot)

NextShare == DoGetSharedFetcher \/ DoFetchShared \/ DoGetSharedReader

SpecShare == InitResolve /\ [][NextShare]_vars

\* the program that reads a member of a tarball through its first variable
\* and gets Fetchers for compressed files into its second
TarShareResources(slot) ==
    IF slot = 1 THEN {"http://h/t.tgz#m1"} ELSE {"ftp://h/g.gz", "ftp://h/b.bz2"}

DoGetTarShareFetcher == \E slot \in 1..MaxHeld :
                           \E r \in TarShareResources(slot) : GetFetcher(r, slot)

NextTarShare == DoGetTarShareFetcher \/ DoFetchShared \/ DoGetSharedReader

SpecTarShare == InitResolve /\ [][NextTarShare]_vars

\* the whole program: every call, in any order
DoGetAnyFetcher == \E r \in Resources, slot \in 1..MaxHeld : GetFetcher(r, slot)
DoAnyFetch == \E slot \in 1..MaxHeld, fault \in Faults :
                 \E reply \in RepliesOf(Base(obj, held[slot].f)) : Fetch(slot, reply, fault)

DoAnyGetReader == \E slot \in 1..MaxHeld : GetReader(slot)

Next ==
    \/ DoRegisterFetcher \/ DoRegisterWrapper \/ DoGetAnyFetcher \/ DoAnyFetch
    \/ DoAnyGetReader
    \/ DoInitCache \/ DoGetCachedFile \/ DoPutCachedFile \/ Tick

Spec == Init /\ [][Next]_vars


-----------------------------------------------------------------------------
(* Properties.  Each is stated on the record of the latest call (call), on *)
(* the state the call left, or on the step of a call.                      *)

\* the positions of the registered Fetchers that detect resource
Matching(resource) == {i \in 1..Len(fetchers) : Detect(fetchers[i], resource)}

\* the layers of the Fetcher f on the heap o, outermost first, down to the
\* Fetcher that is no wrapper (or to NIL, where a wrapper wraps nothing)
RECURSIVE Chain(_, _)
Chain(o, f) ==
    IF f \in Kinds THEN <<f>> \o Chain(o, o[f].wrapped) ELSE <<f>>

\* whether Wrap of the wrapper w fails
WrapFails(w) == Wrap(obj, w, NIL, "").err # NIL

\* the layers that folding Wrap over the wrappers ws leaves on top of the
\* layers inner: a Wrap that succeeds adds its wrapper, one that fails
\* leaves the nil Fetcher
RECURSIVE FoldWrap(_, _)
FoldWrap(ws, inner) ==
    IF ws = <<>> THEN inner
    ELSE FoldWrap(Tail(ws), IF WrapFails(Head(ws)) THEN <<NIL>> ELSE <<Head(ws)>> \o inner)

\* the registered wrappers whose DetectWrap accepts the resource, in
\* registration order
MatchingWrappers(resource) ==
    LET Accepts(w) == DetectWrap(w, MainPath(resource), PathPart(resource))
    IN  SelectSeq(wrappers, Accepts)

\* the bases of the resources that are fetched over the network
Bases == {BaseResource(r) : r \in NetResources}

\* whether the index holds an entry of the key that is within the age window
Fresh(key) == key \in DOMAIN cached.m /\ now - cached.m[key].FetchTime <= cacheAge

\* C1: while the cache writes succeed, a base resource is downloaded again
\* only when its latest download is older than cacheAge, whatever members are
\* asked for; and the index never holds more than one entry of a base
\* resource.
C1_OneRetrievalPerWindow ==
    [][/\ \A k \in DOMAIN net :
             (~cacheFault /\ net'[k] # net[k]) => now - net[k].last > cacheAge
       /\ \A b \in Bases :
             Cardinality({k \in DOMAIN cached'.m : BaseResource(k) = b}) <= 1]_vars

\* a Fetch of member m2 that was served from the cache, with no error, on a
\* later day within the window of the one download of its base resource
C1_Witness ==
    /\ call.op = "Fetch" /\ call.err = NIL /\ ~cacheFault
    /\ call.resource = "ftp://h/t.tar.gz#m2"
    /\ BaseResource(call.resource) \in DOMAIN net
    /\ net[BaseResource(call.resource)].count = 1
    /\ net[BaseResource(call.resource)].last < now
    /\ now - net[BaseResource(call.resource)].last <= cacheAge
    /\ obj[Base(obj, call.f)].data = puts[BaseResource(call.resource)]
    /\ Cardinality(DOMAIN cached.m) = 1

\* C2: GetCachedFile(k), called within the age window after PutCachedFile
\* calls that succeeded, returns exactly the bytes of the latest
\* PutCachedFile for k, also when an earlier payload for k was longer.
C2_PutGetRoundTrip ==
    (/\ call.op = "GetCachedFile" /\ ~cacheFault
     /\ BaseResource(call.resource) \in DOMAIN puts
     /\ Fresh(BaseResource(call.resource)))
        => call.data = puts[BaseResource(call.resource)]

\* C3: GetCachedFile(k) returns nil when the index has no entry for k or the
\* entry is older than cacheAge, also when the payload file exists; it
\* returns the content of the payload file when the entry's age is at most
\* cacheAge and the file can be read.
C3_StaleOrMissingIsAbsent ==
    call.op = "GetCachedFile" =>
        LET k == BaseResource(call.resource)
        IN  /\ k \notin DOMAIN cached.m => call.data = NIL
            /\ (k \in DOMAIN cached.m /\ now - cached.m[k].FetchTime > cacheAge)
                   => call.data = NIL
            /\ (/\ Fresh(k)
                /\ Exists(disk, PathJoin(cachePath, cached.m[k].LocalName)))
                   => call.data = disk[PathJoin(cachePath, cached.m[k].LocalName)]

\* GetCachedFile returned nil for an entry older than cacheAge whose payload
\* file is on the disk
C3_Witness ==
    /\ call.op = "GetCachedFile" /\ call.data = NIL
    /\ BaseResource(call.resource) \in DOMAIN cached.m
    /\ now - cached.m[BaseResource(call.resource)].FetchTime > cacheAge
    /\ Exists(disk, PathJoin(cachePath, cached.m[BaseResource(call.resource)].LocalName))

\* the bare paths of the local resources
BarePaths == {"/tmp/x.txt"}

\* C4: with the registries of init(), GetFetcher(p) and GetFetcher("file://"
\* + p), for a bare path p, both return the Local fetcher and a nil error,
\* and a Fetch on either opens the file p.
C4_BarePathAndFileURL ==
    (fetchers = BuiltinFetchers /\ wrappers = BuiltinWrappers) =>
        \A p \in BarePaths :
            /\ (call.op = "GetFetcher" /\ call.resource \in {p, "file://" \o p})
                   => (call.err = NIL /\ call.f = "local")
            /\ (call.op = "Fetch" /\ call.resource \in {p, "file://" \o p})
                   => (call.err = NIL /\ obj["local"].f = p)

C6_LastMatchSelected ==
    (call.op = "GetFetcher" /\ Matching(call.resource) # {}) =>
        call.selected = fetchers[Greatest(Matching(call.resource))]

\* C7: GetFetcher applies exactly the registered wrappers whose DetectWrap
\* accepts (mainpath, pathpart), in registration order, each to the result
\* of the one before: the Fetcher returned is the fold of Wrap over them from
\* the selected Fetcher, the last of them outermost and the selected Fetcher
\* innermost.
C7_WrappersFold ==
    (call.op = "GetFetcher" /\ call.selected # NIL) =>
        /\ call.applied = MatchingWrappers(call.resource)
        /\ Chain(obj, call.f) = FoldWrap(MatchingWrappers(call.resource), <<call.selected>>)

\* GetFetcher applied two of the registered wrappers, both with success, and
\* left the others out: the second is the outermost layer, the selected
\* Fetcher the innermost
C7_Witness ==
    /\ call.op = "GetFetcher" /\ call.selected # NIL /\ call.err = NIL
    /\ Len(call.applied) = 2
    /\ Len(wrappers) > 2
    /\ Chain(obj, call.f) = <<call.applied[2], call.applied[1], call.selected>>

\* C8: a GetFetcher call on a resource that no registered Fetcher detects
\* returns a nil Fetcher and an error, calls no wrapper (none is applied and
\* none changes), and changes neither the cache, the disk nor the record of
\* downloads.
C8_NoMatchNoEffects ==
    [][(call'.op = "GetFetcher" /\ Matching(call'.resource) = {}) =>
          /\ call'.f = NIL /\ call'.err # NIL /\ call'.applied = <<>>
          /\ UNCHANGED <<obj, cachePath, cached, cacheAge, disk, net, fetchers,
                         wrappers>>]_vars

\* GetFetcher failed on a resource no Fetcher detects, after an earlier call
\* had left a compression kind in the tarball wrapper, which it kept
C8_Witness ==
    /\ call.op = "GetFetcher" /\ Matching(call.resource) = {}
    /\ call.f = NIL /\ call.err # NIL
    /\ obj["tar"].compType # ""

\* C9: for a resource that some registered Fetcher detects, GetFetcher
\* returns a Fetcher and a nil error when every Wrap it called succeeded,
\* also when the resource is no valid URL.
C9_ParsingNeverFails ==
    (/\ call.op = "GetFetcher" /\ Matching(call.resource) # {}
     /\ \A i \in 1..Len(call.applied) : ~WrapFails(call.applied[i]))
        => (call.f # NIL /\ call.err = NIL)

\* C10: a GetFetcher call changes no field of a registered Fetcher or
\* Wrapper, nor the cache, the disk or the record of downloads.
C10_GetFetcherNoSideEffects ==
    [][call'.op = "GetFetcher" =>
          UNCHANGED <<obj, cachePath, cached, cacheAge, disk, net>>]_vars

\* what a caller reads for resource from a Fetcher that no other call has
\* touched, when the Fetcher at its base holds payload: the [err, r, read,
\* panic] of GetReader on the Fetcher GetFetcher builds on a heap of zero
\* objects
FreshRead(resource, payload) ==
    LET g == GetFetcherResult(fetchers, wrappers, [id \in Objects |-> ZeroObject], resource)
    IN  GetReaderResult([g.obj EXCEPT ![Base(g.obj, g.f)].data = payload], disk, g.f)

\* C11: GetReader on the Fetcher a variable holds for a network resource,
\* after a Fetch on it that returned no error, yields what that Fetch
\* retrieved, whatever was got and fetched through the other variables since.
C11_FetcherBoundToLocator ==
    \A i \in 1..MaxHeld :
        (/\ call.op = "GetReader" /\ call.resource = held[i].resource
         /\ call.f = held[i].f /\ fetched.slots[i] # NIL)
            => /\ call.err = FreshRead(call.resource, fetched.slots[i]).err
               /\ call.err = NIL =>
                      call.data = FreshRead(call.resource, fetched.slots[i]).r.data

\* C12: the Fetchers two variables hold for two different resource strings
\* are different objects, and each wrapper among them still has the member
\* name (pathpart) of its own resource string and wraps the Fetcher
\* selected for it.
C12_WrapReturnsNewFetcher ==
    \A i, j \in 1..MaxHeld :
        (/\ i # j /\ held[i].f \in Kinds /\ held[j].f \in Kinds
         /\ held[i].resource # held[j].resource)
            => /\ held[i].f # held[j].f
               /\ obj[held[i].f].insideName = PathPart(held[i].resource)
               /\ Base(obj, held[i].f) = SelectFetcher(fetchers, held[i].resource)

\* C13: GetReader on a built-in Fetcher, or on wrappers over one, returns an
\* error when no Fetch on that Fetcher has returned without an error yet.
C13_NotFetched ==
    (call.op = "GetReader" /\ Base(obj, call.f) \notin fetched.objs) => call.err # NIL

\* whether the resource names a member that the archives do not hold
AbsentMember(resource) ==
    /\ resource \in DOMAIN Parsed
    /\ PathPart(resource) # ""
    /\ \A i \in 1..Len(ArchiveFiles) : ArchiveFiles[i].Name # PathPart(resource)

\* C14: for a zip or tarball resource whose member is not in the archive,
\* GetFetcher returns a Fetcher and no error, a Fetch that retrieves the
\* whole archive returns no error, and GetReader then returns the error.
C14_MemberNotFoundAtGetReader ==
    AbsentMember(call.resource) =>
        /\ call.op = "GetFetcher" => (call.f \in {"zip", "tar"} /\ call.err = NIL)
        /\ (call.op = "Fetch" /\ Payload(obj, disk, Base(obj, call.f)) = Served(call.resource))
               => call.err = NIL
        /\ (call.op = "GetReader" /\ fetched.slots[1] = Served(call.resource))
               => (call.err # NIL /\ call.data = NIL)

\* GetReader failed for the absent member m2 of the zip archive that a Fetch
\* had retrieved with success
C14_Witness ==
    /\ call.op = "GetReader" /\ call.resource = "http://h/a.zip#m2"
    /\ AbsentMember(call.resource)
    /\ fetched.slots[1] = Served(call.resource)
    /\ call.err = "reading from .zip failed"

\* the compression kind of each suffix of a tarball
TarKinds ==
    ("http://h/t.tar#m1" :> "none") @@ ("ftp://h/t.tar.gz#m1" :> "gzip")
        @@ ("http://h/t.tgz#m1" :> "gzip") @@ ("ftp://h/t.tar.bz2#m1" :> "bzip2")
        @@ ("http://h/t.tbz2#m1" :> "bzip2") @@ ("ftp://h/t.tar.bzip2#m1" :> "bzip2")

\* C15: for a tarball resource with a member, GetFetcher returns the Tarball
\* wrapper over the HTTP fetcher (http://) or the FTP fetcher (ftp://), with
\* the compression kind of the suffix and the member name; GetReader after a
\* Fetch that retrieved the archive yields the content of the member.
C15_TarballKinds ==
    call.resource \in DOMAIN TarKinds =>
        /\ call.op = "GetFetcher" =>
              /\ call.f = "tar" /\ call.err = NIL
              /\ obj["tar"].wrapped = (IF HasPrefix(call.resource, "http://") THEN "http"
                                       ELSE "ftp")
              /\ obj["tar"].compType = TarKinds[call.resource]
              /\ obj["tar"].insideName = "m1"
        /\ (call.op = "GetReader" /\ fetched.slots[1] = Served(call.resource))
              => (call.err = NIL /\ call.data = ArchiveFiles[1].content /\ ~call.readerr)

\* GetReader yielded the content of member m1 of a bzip2 tarball fetched
\* over HTTP
C15_Witness ==
    /\ call.op = "GetReader" /\ call.resource = "http://h/t.tbz2#m1"
    /\ fetched.slots[1] = Served(call.resource)
    /\ obj["tar"].compType = "bzip2" /\ obj["tar"].wrapped = "http"
    /\ call.err = NIL /\ call.data = "x1"

\* C16: when GetReader is called a second time on a Zip-wrapped Fetcher whose
\* Fetch had succeeded and whose first GetReader yielded the member, with no
\* Fetch in between, the second call yields the same member bytes.
C16_ZipReaderRepeatable ==
    [][(/\ call.op = "GetReader" /\ call.f = "zip" /\ call.err = NIL
        /\ fetched.slots[1] # NIL
        /\ call'.op = "GetReader" /\ call'.f = "zip"
        /\ call'.resource = call.resource)
           => (call'.err = NIL /\ call'.data = call.data)]_vars

\* what GetCachedFile returns for the resource of the Fetcher in hand, in
\* the current state
Hit == GetCachedResult(CacheState, disk, now, held[1].resource).data

\* C17: in every step that is a Fetch (the call recorded after it is a Fetch),
\* a Fetch over HTTP or FTP that finds the base resource in the cache,
\* within the age window, returns no error, holds the cached bytes and touches
\* neither the network nor the disk; the cache is written only by a Fetch
\* that has retrieved the resource, and a retrieval happens only on a miss;
\* when no cache write has failed, the cache then has an entry of that day
\* for the base resource, with its file.
C17_CacheBeforeNetwork ==
    [][call'.op = "Fetch" =>
          /\ Hit # NIL =>
                /\ call'.err = NIL
                /\ obj'[Base(obj, held[1].f)].data = Hit
                /\ net' = net /\ disk' = disk
          /\ net' = net => (disk' = disk /\ cached'.m = LazyInit(CacheState, disk).cached.m)
          /\ net' # net =>
                /\ Hit = NIL
                /\ ~cacheFault' =>
                      /\ BaseResource(held[1].resource) \in DOMAIN cached'.m
                      /\ cached'.m[BaseResource(held[1].resource)].FetchTime = now
                      /\ Exists(disk', PathJoin(cachePath',
                               cached'.m[BaseResource(held[1].resource)].LocalName))]_vars

\* a Fetch over HTTP was served from the cache left by an earlier run: it
\* holds the cached bytes and nothing was retrieved
C17_Witness ==
    /\ call.op = "Fetch" /\ call.err = NIL
    /\ Base(obj, call.f) = "http"
    /\ obj["http"].data = OldPayload["cache/527dc57e57a42a73a8b8e2fa191ee14d"]
    /\ net = <<>>

\* the replies of the network that are failures of the retrieval
FailedReplies == {"connfail", "loginfail", "retrfail", "status", "readerr"}

\* C18: a Fetch over HTTP or FTP whose retrieval failed (no connection, a
\* rejected login, a refused file, a response with an error status, an error
\* while reading the body) returns a non-nil error.
C18_FailedRetrievalIsError ==
    (call.op = "Fetch" /\ call.reply \in FailedReplies) => call.err # NIL

\* C20: after a GetCachedFile or a PutCachedFile, also one that is the first
\* cache operation of the process, the process has not crashed, the cache is
\* initialised (with directory "cache" and an age of 7 days when no
\* InitCache came before), and a PutCachedFile whose writes succeeded has
\* recorded its entry.
C20_LazyInitialisation ==
    call.op \in {"GetCachedFile", "PutCachedFile"} =>
        /\ ~crashed
        /\ ~cached.isNil
        /\ cachePath = DefaultCachePath
        /\ cacheAge \in {1, DefaultAgeDays}
        /\ (call.op = "PutCachedFile" /\ ~cacheFault)
               => CacheKey(call.resource) \in DOMAIN cached.m

\* the replies of the network for which httpFetcher.Fetch and
\* ftpFetcher.Fetch return an error when the cache works
ErrorReplies == {"connfail", "loginfail", "retrfail", "readerr"}

\* C19: whatever the cache finds on the disk and whichever of its writes
\* fail, the process does not crash in a cache operation, and a Fetch over
\* HTTP or FTP returns the error that the network's reply alone decides.
C19_CacheFailuresSwallowed ==
    /\ ~crashed
    /\ call.op = "Fetch" => (call.err # NIL <=> call.reply \in ErrorReplies)

\* C21: after InitCache(dir, n) the maximum age is n days, or 1 day when n
\* is less than 1; an initialised cache never has a maximum age below 1 day.
C21_MinimumAge ==
    /\ call.op = "InitCache" =>
           cacheAge = (IF call.ageDays < 1 THEN 1 ELSE call.ageDays)
    /\ ~cached.isNil => cacheAge >= 1

\* whether directory cpath has no index document, or one for which
\* json.Unmarshal returns an error
Unloadable(dsk, cpath) ==
    \/ ~Exists(dsk, PathJoin(cpath, IndexFile))
    \/ /\ dsk[PathJoin(cpath, IndexFile)] # NullDocument
       /\ Unmarshal(dsk[PathJoin(cpath, IndexFile)]).err

\* C22: when the index document is missing or json.Unmarshal fails on it,
\* the index after InitCache is a map with no entries (not nil), and a
\* GetCachedFile that follows returns nil.
C22_FailedLoadIsEmpty ==
    (~cached.isNil /\ Unloadable(disk, cachePath)) =>
        /\ call.op = "InitCache" => cached = EmptyMap
        /\ call.op = "GetCachedFile" => call.data = NIL

\* the positions of a call in the record of the calls on the FTP library
At(calls, name) == {i \in 1..Len(calls) : calls[i] = name}

\* C23: when a Fetch over FTP returns, a connection that was opened has been
\* closed by one Quit, the last call of the Fetch; a login that succeeded has
\* been logged out by one Logout, the call just before the Quit; without a
\* connection there is no Quit, without a login no Logout; and a Fetch
\* served from the cache makes no call on the FTP library.
C23_FtpConnectionReleased ==
    (call.op = "Fetch" /\ Base(obj, call.f) = "ftp") =>
        /\ call.reply = "none" => call.ftp = <<>>
        /\ call.reply # "none" => call.ftp # <<>>
        /\ At(call.ftp, "Connect") # {} <=> At(call.ftp, "Quit") = {Len(call.ftp)}
        /\ At(call.ftp, "Connect") = {} => At(call.ftp, "Quit") = {}
        /\ At(call.ftp, "Login") # {} <=> At(call.ftp, "Logout") = {Len(call.ftp) - 1}
        /\ At(call.ftp, "Login") = {} => At(call.ftp, "Logout") = {}

\* a Fetch over FTP whose login succeeded and whose file was refused has
\* logged out and closed the connection
C23_Witness ==
    /\ call.op = "Fetch" /\ Base(obj, call.f) = "ftp"
    /\ call.reply = "retrfail" /\ call.err # NIL
    /\ call.ftp = <<"Connect", "Login", "Retr failed", "Logout", "Quit">>

\* whether registry after is registry before, or before with the instance of
\* the call named op appended
Appended(before, after, op) ==
    \/ after = before
    \/ /\ call'.op = op
       /\ after = Append(before, call'.f)

\* C24: each registry begins with the built-in instances in the order of
\* init(), and every step leaves each registry as it was or appends to it the
\* instance of the RegisterFetcher or RegisterWrapper call of that step: no
\* entry is removed, replaced or moved.
C24_RegistriesOnlyAppend ==
    [][/\ SubSeq(fetchers', 1, Len(BuiltinFetchers)) = BuiltinFetchers
       /\ SubSeq(wrappers', 1, Len(BuiltinWrappers)) = BuiltinWrappers
       /\ Appended(fetchers, fetchers', "RegisterFetcher")
       /\ Appended(wrappers, wrappers', "RegisterWrapper")]_vars

\* the user's fetcher and the user's two wrappers are registered, the
\* wrappers in the order of the calls (uw2 before uw1)
C24_Witness ==
    /\ fetchers = BuiltinFetchers \o <<"uf1">>
    /\ wrappers = BuiltinWrappers \o <<"uw2", "uw1">>

\* C25: GetReader on the Fetcher that GetFetcher returned for a tarball
\* resource, after a Fetch that retrieved the archive, does not fail with the
\* unknown-compression error, and the tarball wrapper holds the compression
\* kind of the resource's suffix, whatever GetFetcher calls came in between.
C25_KindAtDetectionApplied ==
    (/\ call.op = "GetReader" /\ call.resource \in DOMAIN TarKinds
     /\ call.resource = held[1].resource
     /\ fetched.slots[1] = Served(call.resource))
        => /\ call.err # "unknown tarball error"
           /\ obj["tar"].compType = TarKinds[call.resource]

\* C26: after a PutCachedFile, when no write of the cache has failed, the
\* index that InitCache would load from the directory is the index in memory.
C26_IndexDocumentIsIndex ==
    (call.op = "PutCachedFile" /\ ~cacheFault /\ ~crashed)
        => LoadIndex(disk, cachePath) = cached

\* C27: a Fetch over HTTP or FTP that returns an error leaves the files of
\* the cache as they were and the index with the entries it had when the
\* Fetch looked the resource up.
C27_FailedFetchLeavesCache ==
    [][(/\ call'.op = "Fetch" /\ call'.err # NIL
        /\ Base(obj, held[1].f) \in {"http", "ftp"})
           => /\ disk' = disk
              /\ cached'.m = LazyInit(CacheState, disk).cached.m]_vars

\* C28: GetCachedFile on an initialised cache changes nothing: the index in
\* memory, the directory and age of the cache, the index document and the
\* payload files are after the call what they were before it, whether the
\* key has a fresh entry, a stale entry or none.
C28_GetCachedFileReadOnly ==
    [][(call'.op = "GetCachedFile" /\ ~cached.isNil)
           => /\ cached' = cached
              /\ cachePath' = cachePath
              /\ cacheAge' = cacheAge
              /\ disk' = disk]_vars

\* a GetCachedFile of a key whose entry is too old has returned nil and the
\* entry is still in the index
C28_Witness ==
    /\ call.op = "GetCachedFile"
    /\ ~cached.isNil
    /\ CacheKey(call.resource) \in DOMAIN cached.m
    /\ now - cached.m[CacheKey(call.resource)].FetchTime > cacheAge
    /\ call.data = NIL

\* the bytes GetCachedFile returns for a key in the cache state c on disk dsk
Returned(c, dsk, key) == Lookup(c, dsk, now, key).data

\* C29: every entry of the index names its payload file by the hash of its
\* key and two keys never share a payload file; a PutCachedFile that does
\* not fail creates no file but the payload file of its key and the index
\* document, and leaves the bytes returned for every other key unchanged.
C29_PayloadNamedByKey ==
    /\ [](\A k \in DOMAIN cached.m : cached.m[k].LocalName = MD5Hex(k))
    /\ [](\A k1, k2 \in DOMAIN cached.m :
              k1 # k2 => cached.m[k1].LocalName # cached.m[k2].LocalName)
    /\ [][(call'.op = "PutCachedFile" /\ ~cached.isNil)
              => /\ DOMAIN disk' \ DOMAIN disk \subseteq
                        {PathJoin(cachePath, MD5Hex(CacheKey(call'.resource))),
                         PathJoin(cachePath, IndexFile)}
                 /\ \A r \in KeyResources :
                        CacheKey(r) # CacheKey(call'.resource)
                            => Returned(CacheState', disk', CacheKey(r))
                                   = Returned(CacheState, disk, CacheKey(r))]_vars

\* the index holds two keys, each with its own payload, and the later put
\* of the one has left the payload of the other
C29_Witness ==
    /\ call.op = "PutCachedFile"
    /\ call.resource = "ftp://h/a.zip"
    /\ ~crashed
    /\ Returned(CacheState, disk, "ftp://h/a.zip") = "c"
    /\ Returned(CacheState, disk, "http://h/a.zip") = "ab"
    /\ cached.m["http://h/a.zip"].LocalName # cached.m["ftp://h/a.zip"].LocalName

\* C30: the cache addresses an entry by the text of the resource string
\* before its first '#'.  After a PutCachedFile of a resource, the index has
\* gained at most the entry of that text, every resource string with the
\* same text before '#' returns what the resource itself returns, and every
\* resource string with another text before '#' (another scheme, host,
\* credentials or query) returns what it returned before.
C30_KeyIsTextBeforeHash ==
    [][(call'.op = "PutCachedFile" /\ ~cached.isNil)
           => /\ DOMAIN cached'.m = DOMAIN cached.m \cup {BaseResource(call'.resource)}
              /\ \A r \in KeyResources :
                     IF BaseResource(r) = BaseResource(call'.resource)
                     THEN GetCachedResult(CacheState', disk', now', r).data
                              = GetCachedResult(CacheState', disk', now', call'.resource).data
                     ELSE GetCachedResult(CacheState', disk', now', r).data
                              = GetCachedResult(CacheState, disk, now, r).data]_vars

\* a payload put under R#m1 is returned for R and for R#m2, while the
\* resources of the other scheme, host, credentials and query each return
\* the payload put under them
C30_Witness ==
    /\ call.op = "PutCachedFile"
    /\ call.resource = "http://h/a.zip#m1"
    /\ ~crashed
    /\ DOMAIN cached.m = {"http://h/a.zip", "ftp://h/a.zip", "http://g/a.zip",
                          "http://u@h/a.zip", "http://h/a.zip?q"}
    /\ \A r \in {"http://h/a.zip", "http://h/a.zip#m1", "http://h/a.zip#m2"} :
           GetCachedResult(CacheState, disk, now, r).data = "ab"
    /\ \A r \in {"ftp://h/a.zip", "http://g/a.zip", "http://u@h/a.zip", "http://h/a.zip?q"} :
           GetCachedResult(CacheState, disk, now, r).data = "c"

\* the calls of a Fetch on the network library that begin a retrieval step
\* named name, whether the step succeeded or failed
Attempts(calls, name) == At(calls, name) \cup At(calls, name \o " failed")

\* the calls that failed
Failures(calls) ==
    {i \in 1..Len(calls) : calls[i] \in {"Do failed", "Connect failed", "Login failed",
                                         "Retr failed", "ReadAll failed"}}

\* the calls that only release what the Fetch holds
Releases == {"Close", "Logout", "Quit"}

\* C31: a Fetch over HTTP sends at most one request and a Fetch over FTP
\* connects, logs in and retrieves at most once each; a Fetch downloads a
\* base resource at most once; after a call that failed the Fetch makes no
\* call but those that release the connection, and it returns an error.
C31_NoRetry ==
    [][call'.op = "Fetch"
          => /\ \A name \in {"Do", "Connect", "Login", "Retr", "ReadAll"} :
                    /\ Cardinality(Attempts(call'.http, name)) <= 1
                    /\ Cardinality(Attempts(call'.ftp, name)) <= 1
             /\ \A k \in DOMAIN net' :
                    net'[k].count <= (IF k \in DOMAIN net THEN net[k].count ELSE 0) + 1
             /\ \A calls \in {call'.http, call'.ftp} :
                    \A i \in Failures(calls) :
                        /\ call'.err # NIL
                        /\ \A j \in (i + 1)..Len(calls) : calls[j] \in Releases]_vars

\* an HTTP Fetch whose request failed has made that one call and returned
\* the error
C31_Witness ==
    /\ call.op = "Fetch"
    /\ call.reply = "connfail"
    /\ call.http = <<"Do failed">>
    /\ call.err = "request failed"

\* path names of every suffix the built-in wrappers look for, and some of
\* none; part names, empty and not
WrapPaths == {"/a.zip", "/t.tar", "/t.tar.gz", "/t.tgz", "/t.tar.bz2", "/t.tbz2",
              "/t.tar.bzip2", "/g.gz", "/b.bz2", "/b.bzip2", "/x.txt", "/a.zip.gz",
              "/t.tar.zip", ".gz", ""}
WrapParts == {"", "m1", ".gz"}

\* the built-in wrappers whose DetectWrap is true of a path name and a part name
Detecting(pathname, partname) ==
    {w \in Range(BuiltinWrappers) : DetectWrap(w, pathname, partname)}

\* C32: at most one of the four built-in DetectWrap predicates is true of a
\* path name and a part name; the two decompressors are true only of an
\* empty part name and the two archive wrappers only of a part name that is
\* not empty; with the registry of init(), GetFetcher applies at most one
\* wrapper.
C32_WrappersExclusive ==
    /\ \A pathname \in WrapPaths, partname \in WrapParts :
           /\ Cardinality(Detecting(pathname, partname)) <= 1
           /\ partname # "" => Detecting(pathname, partname) \subseteq {"zip", "tar"}
           /\ partname = "" => Detecting(pathname, partname) \subseteq {"bz", "gz"}
    /\ call.op = "GetFetcher"
           => /\ Cardinality(Detecting(MainPath(call.resource),
                                       PathPart(call.resource))) <= 1
              /\ wrappers = BuiltinWrappers => Len(call.applied) <= 1

\* GetFetcher of a tarball whose path name also ends in .gz has applied the
\* tarball wrapper alone
C32_Witness ==
    /\ call.op = "GetFetcher"
    /\ call.resource = "ftp://h/t.tar.gz#m1"
    /\ wrappers = BuiltinWrappers
    /\ call.applied = <<"tar">>

\* the entries a scan of the archive in the bytes data steps through before
\* the archive ends or the reading fails, for the wrapper named w
Scanned(w, data) ==
    IF w = "zip" THEN ZipNewReader(data).File
    ELSE IF obj["tar"].compType = "gzip"
    THEN TarFiles(GzipNewReader(BytesReader(data)).r)
    ELSE IF obj["tar"].compType = "bzip2" THEN TarFiles(Bzip2NewReader(BytesReader(data)))
    ELSE TarFiles(BytesReader(data))

\* whether the scan begins: the zip archive is whole, the gzip stream has
\* its header and a compression kind is recorded
Scannable(w, data) ==
    IF w = "zip" THEN ~ZipNewReader(data).err
    ELSE /\ obj["tar"].compType # ""
         /\ obj["tar"].compType = "gzip" => GzipNewReader(BytesReader(data)).err = NIL

MemberNotFound == {"reading from .zip failed", "reading from .tar failed"}

\* C33: GetReader of the Zip or Tarball wrapper over an HTTP or FTP fetcher
\* that holds bytes, when the scan begins: it fails with the member-not-found
\* error exactly when no entry the scan steps through has the member name,
\* and otherwise yields the content of the first entry of that name.
C33_FirstExactEntry ==
    (/\ call.op = "GetReader" /\ call.f \in {"zip", "tar"}
     /\ obj[call.f].wrapped \in {"http", "ftp"}
     /\ obj[obj[call.f].wrapped].data \notin {NIL, ""}
     /\ Scannable(call.f, obj[obj[call.f].wrapped].data))
        => LET fs == Scanned(call.f, obj[obj[call.f].wrapped].data)
               named == {i \in 1..Len(fs) : fs[i].Name = obj[call.f].insideName}
           IN  /\ named = {} <=> call.err \in MemberNotFound
               /\ named # {} =>
                      /\ call.err = NIL
                      /\ \E i \in named : /\ \A j \in named : i <= j
                                          /\ call.data = fs[i].content

\* GetReader of member m1 of a gzip tarball has yielded the first of the two
\* entries called m1
C33_Witness ==
    /\ call.op = "GetReader" /\ call.f = "tar"
    /\ call.resource = "ftp://h/t.tar.gz#m1"
    /\ obj["ftp"].data = GzipOf(TarOf(ArchiveFiles))
    /\ call.err = NIL /\ call.data = "x1"

\* C34: with the registry of init(), GetFetcher selects the HTTP fetcher for
\* every resource string that begins with http:// or https:// and the FTP
\* fetcher for every one that begins with ftp://, whether or not url.Parse
\* accepts the string.
C34_RemotePrefixSelectsRemote ==
    (call.op = "GetFetcher" /\ fetchers = BuiltinFetchers) =>
        /\ (HasPrefix(call.resource, "http://") \/ HasPrefix(call.resource, "https://"))
               => call.selected = "http"
        /\ HasPrefix(call.resource, "ftp://") => call.selected = "ftp"

\* C35: GetReader on an HTTP or FTP fetcher whose last Fetch returned no
\* error returns no error and a stream that yields the payload the Fetch
\* left, from its first byte, whatever the payload and however often
\* GetReader is called.
C35_ReaderYieldsPayload ==
    (/\ call.op = "GetReader" /\ call.f \in {"http", "ftp"}
     /\ fetched.slots[1] # NIL)
        => /\ call.err = NIL
           /\ call.data = fetched.slots[1]
           /\ ~call.readerr

\* whether the cache has an entry for the base resource of the Fetcher in
\* hand that is too old
StaleInHand ==
    LET c == LazyInit(CacheState, disk)
        key == BaseResource(held[1].resource)
    IN  /\ key \in DOMAIN c.cached.m
        /\ now - c.cached.m[key].FetchTime > c.cacheAge

\* C36: a Fetch over HTTP or FTP that finds a stale entry and whose
\* retrieval fails returns the error, leaves the entry as it was, and leaves
\* the Fetcher such that GetReader fails.
C36_StaleAndFailed ==
    [][(/\ call'.op = "Fetch" /\ call'.reply \in ErrorReplies
        /\ Base(obj, held[1].f) \in {"http", "ftp"}
        /\ StaleInHand)
           => /\ call'.err # NIL
              /\ cached'.m[BaseResource(held[1].resource)]
                     = LazyInit(CacheState, disk).cached.m[BaseResource(held[1].resource)]
              /\ GetReaderResult(obj', disk', held[1].f).err # NIL]_vars

\* the host and the port a locator gives: the text of its authority before
\* and after the ':' that follows the host ("" when it gives none)
HostName(furl) ==
    IF Contains(furl.Host, ":") THEN Before(furl.Host, LastIndex(furl.Host, ":"))
    ELSE furl.Host

Port(furl) ==
    IF Contains(furl.Host, ":") THEN After(furl.Host, LastIndex(furl.Host, ":")) ELSE ""

\* C38: a Fetch over FTP that goes to the network connects to the host of
\* the locator, on port 21 when the locator gives no port and on the port it
\* gives otherwise; when it logs in, it does so with the user and the
\* password of the locator when the locator has them and with
\* anonymous/anonymous when the locator has no credentials.
C38_FtpPortAndLogin ==
    (call.op = "Fetch" /\ call.ftp # <<>>) =>
        LET furl == Parse(call.resource)
        IN  /\ call.session.addr =
                   HostName(furl) \o ":" \o (IF Port(furl) = "" THEN "21" ELSE Port(furl))
            /\ (call.session.user # NIL /\ furl.HasUser)
                   => /\ call.session.user = furl.Username
                      /\ furl.HasPassword => call.session.password = furl.Password
            /\ (call.session.user # NIL /\ ~furl.HasUser)
                   => /\ call.session.user = "anonymous"
                      /\ call.session.password = "anonymous"

\* whether the step takes goroutine p from one place of its call to another
Moves(p, from, to) == proc[p].pc = from /\ proc'[p].pc = to

\* C37: nothing orders the goroutines.  A goroutine whose lookup finds no
\* usable copy at that instant goes to the network, whatever the others
\* are doing, and each such goroutine makes its own retrieval; the index
\* document a goroutine writes is the serialization it made of the index
\* when it executed json.Marshal, not of the index as it is when it writes.
C37_NoSynchronization ==
    [][\A p \in Procs :
           /\ (proc[p].pc = "idle" /\ proc'[p].pc # "idle")
                  => (proc'[p].pc = "request"
                          <=> GetCachedResult(CacheState, disk, now,
                                              proc'[p].resource).data = NIL)
           /\ Moves(p, "request", "payload")
                  => net'[BaseResource(proc[p].resource)].count
                         = 1 + (IF BaseResource(proc[p].resource) \in DOMAIN net
                                THEN net[BaseResource(proc[p].resource)].count ELSE 0)
           /\ Moves(p, "marshal", "index") => proc'[p].cdata = Marshal(cached.m)
           /\ Moves(p, "index", "done")
                  => disk' = WriteFile(disk, PathJoin(cachePath, IndexFile),
                                       proc[p].cdata)]_vars

\* all three goroutines have returned from Fetch: the two that fetched
\* members of the one archive have both retrieved it, and the index document
\* on disk does not load as the index in memory, which has both keys
C37_Witness ==
    /\ ~crashed
    /\ \A p \in Procs : proc[p].pc = "done"
    /\ proc["g1"].resource = "http://h/a.zip#m1"
    /\ proc["g2"].resource = "http://h/a.zip#m2"
    /\ net["http://h/a.zip"].count = 2
    /\ DOMAIN cached.m = {"http://h/a.zip", "http://h/x.txt"}
    /\ DOMAIN LoadIndex(disk, cachePath).m # DOMAIN cached.m

====
